---- MODULE Spec2Model ----
(***************************************************************************)
(* Dialogue policy and transition engine of the orchestration package:     *)
(* the Observer's state update with the phase transition check             *)
(* (orchestration/observer.py), the legacy Critic loop                     *)
(* (orchestration/orchestrator.py), the LangGraph generate / validate /    *)
(* fix loop (orchestration/graph), rule selection (orchestration/rules),   *)
(* output validation and repair (orchestration/validation), the reply      *)
(* interface (orchestration/actor.py) and the session reset.               *)
(*                                                                         *)
(* Affect values are fixed-point numbers in units of 1/Scale; a confidence *)
(* is a percentage.  None and the empty string of an instruction are both  *)
(* the empty sequence (every use in the source tests truthiness only).     *)
(***************************************************************************)
EXTENDS Integers, Sequences, FiniteSets, TLC

VARIABLES
    ustate,     \* observer session: the UserState handed from turn to turn
    obs,        \* observer session: record of the last update_state call
    db,         \* user_states table: user_id -> stored UserState or NoRow
    w,          \* worker id -> the local variables of its running turn
    mode,       \* USE_LANGGRAPH of the process: "legacy" or "graph"
    story,      \* the scenario file the process loaded into SCENARIO_DATA
    outages,    \* observer session: calls made while the service was down
    call,       \* the last call of a side-effect free operation, with its result
    registry,   \* the rules file the process loaded into RuleRegistry
    chat_logs   \* user id -> the exchanges in the stored chat history

vars == <<ustate, obs, db, w, mode, story, outages, call, registry, chat_logs>>

----------------------------------------------------------------------------
(* Bounds *)

MaxTurn == 3          \* turns taken inside one phase by the observer session
MaxOutages == 1       \* observer calls of a session that find the service down
MaxRounds == 2        \* turns a worker starts in the pipeline model
MaxDecays == 2        \* consecutive decay calls on one EmotionState
MaxViolations == 3    \* violations of one validation result handed to fix
MaxLen == 3           \* characters of the enumerated texts
MaxResets == 1        \* resets a worker serves in the pipeline model

----------------------------------------------------------------------------
(* orchestration/models.py *)

Scale == 10 * 10        \* affect resolution: hundredths
AffectMax == 10 * Scale
AffectMin == 0 - AffectMax

Min2(a, b) == IF a < b THEN a ELSE b
Max2(a, b) == IF a > b THEN a ELSE b

\* x * num / den rounded toward zero (the fixed-point image of a float product)
MulDiv(x, num, den) == IF x * num >= 0 THEN (x * num) \div den
                                       ELSE 0 - ((0 - x * num) \div den)

\* clamp that leaves dominance as it is
clamp_no_dominance(emo) ==
    [pleasure  |-> Max2(AffectMin, Min2(AffectMax, emo.pleasure)),
     arousal   |-> Max2(AffectMin, Min2(AffectMax, emo.arousal)),
     dominance |-> emo.dominance]

clamp(emo) ==
    [pleasure  |-> Max2(AffectMin, Min2(AffectMax, emo.pleasure)),
     arousal   |-> Max2(AffectMin, Min2(AffectMax, emo.arousal)),
     dominance |-> Max2(AffectMin, Min2(AffectMax, emo.dominance))]

\* rate is given in hundredths: decay(0.1) is decay(emo, 10)
decay(emo, rate) ==
    [pleasure  |-> MulDiv(emo.pleasure, 1000 - rate, 1000),
     arousal   |-> MulDiv(emo.arousal, 1000 - rate, 1000),
     dominance |-> emo.dominance]

EmptyVars == [k \in {} |-> FALSE]

\* no side-effect free operation has been called
NoCall == [op |-> "none"]

DefaultPhase == "phase_1_meeting"
DefaultScene == "scene_station_front"

NewUserState ==
    [emotion  |-> [pleasure |-> 0, arousal |-> 0, dominance |-> 0],
     scenario |-> [current_phase |-> DefaultPhase,
                   current_scene |-> DefaultScene,
                   turn_count_in_phase |-> 0,
                   variables |-> EmptyVars]]

\* dict.get(key, default)
Get(d, k, default) == IF k \in DOMAIN d THEN d[k] ELSE default

\* dict.update(other)
Update(d, other) ==
    [k \in (DOMAIN d) \cup (DOMAIN other) |->
        IF k \in DOMAIN other THEN other[k] ELSE d[k]]

----------------------------------------------------------------------------
(* Scenario data (orchestration/observer.py, SCENARIO_DATA): the phase       *)
(* definitions the process loaded.  A trigger condition is a conjunction of  *)
(* atoms, evaluated left to right as Python's `and` does.                    *)

TurnGE(n)     == [op |-> "turn_ge", n |-> n, key |-> ""]      \* turn_count_in_phase >= n
PleasureGE(n) == [op |-> "pleasure_ge", n |-> n, key |-> ""]  \* pleasure >= n
Consent       == [op |-> "consent", n |-> 0, key |-> ""]      \* consent_for_next_phase
Var(k)        == [op |-> "var", n |-> 0, key |-> k]           \* variables['k']
ConsentOr(k)  == [op |-> "consent_or", n |-> 0, key |-> k]    \* (consent_for_next_phase or variables['k'])

PhaseDef(next, cond, text, scenes) ==
    [next_phase |-> next, trigger_condition |-> cond,
     proposal_text |-> text, scenes |-> scenes]

\* the story: consent-gated phases, then a phase without next_phase
IdolStory ==
    [p \in {"phase_1_meeting", "phase_2_cafe", "phase_3_lesson", "phase_4_stage"} |->
        CASE p = "phase_1_meeting" ->
                PhaseDef("phase_2_cafe", <<TurnGE(2), Consent>>, "",
                         <<"scene_station_front", "scene_street">>)
          [] p = "phase_2_cafe" ->
                PhaseDef("phase_3_lesson", <<PleasureGE(5 * Scale), Consent>>,
                         "invite_to_lesson", <<"scene_cafe", "scene_terrace">>)
          [] p = "phase_3_lesson" ->
                PhaseDef("phase_4_stage", <<Var("visited"), Consent>>, "",
                         <<"scene_studio">>)
          [] OTHER ->
                PhaseDef("", <<TurnGE(1)>>, "", <<"scene_stage">>)]

\* a story whose first phase is not consent-gated and whose second phase
\* names a next phase but no trigger condition
ShortStory ==
    [p \in {"phase_1_meeting", "phase_2_live", "phase_3_finale"} |->
        CASE p = "phase_1_meeting" ->
                PhaseDef("phase_2_live", <<TurnGE(1)>>, "",
                         <<"scene_station_front">>)
          [] p = "phase_2_live" ->
                PhaseDef("phase_3_finale", <<>>, "", <<"scene_hall", "scene_lobby">>)
          [] OTHER ->
                PhaseDef("", <<>>, "", <<"scene_finale">>)]

\* a story whose first phase can be left by consent or by a variable set
\* from outside
SkipStory ==
    [p \in {"phase_1_meeting", "phase_2_backstage", "phase_3_finale"} |->
        CASE p = "phase_1_meeting" ->
                PhaseDef("phase_2_backstage", <<TurnGE(1), ConsentOr("skip")>>, "",
                         <<"scene_station_front">>)
          [] p = "phase_2_backstage" ->
                PhaseDef("phase_3_finale", <<Var("visited"), Consent>>, "",
                         <<"scene_backstage">>)
          [] OTHER ->
                PhaseDef("", <<>>, "", <<"scene_finale">>)]

\* SCENARIO_DATA = {} : the data file does not exist
NoStory == [p \in {} |-> PhaseDef("", <<>>, "", <<>>)]

ScenarioFiles == {"idol_story", "short_story", "missing"}

SCENARIO_DATA(file) ==
    CASE file = "idol_story" -> IdolStory
      [] file = "short_story" -> ShortStory
      [] file = "skip_story" -> SkipStory
      [] OTHER -> NoStory

\* eval(condition_expr, {"__builtins__": None}, context): "T", "F", or "E"
\* when the evaluation raises (variables['k'] of a missing key)
RECURSIVE eval(_, _)
eval(cond, context) ==
    IF cond = <<>> THEN "T"
    ELSE LET a == Head(cond)
             v == CASE a.op = "turn_ge" ->
                         IF context.turn_count_in_phase >= a.n THEN "T" ELSE "F"
                    [] a.op = "pleasure_ge" ->
                         IF context.pleasure >= a.n THEN "T" ELSE "F"
                    [] a.op = "consent" ->
                         IF context.consent_for_next_phase THEN "T" ELSE "F"
                    [] a.op = "consent_or" ->
                         IF context.consent_for_next_phase THEN "T"
                         ELSE IF a.key \notin DOMAIN context.variables THEN "E"
                         ELSE IF context.variables[a.key] THEN "T" ELSE "F"
                    [] OTHER ->
                         IF a.key \notin DOMAIN context.variables THEN "E"
                         ELSE IF context.variables[a.key] THEN "T" ELSE "F"
         IN  IF v = "T" THEN eval(Tail(cond), context) ELSE v

----------------------------------------------------------------------------
(* orchestration/observer.py *)

ConsentThreshold == 60     \* confidence >= 0.6

NoInstruction == <<>>

\* is_terminal without the test of trigger_condition
is_terminal_next_only(phases, current_phase_id) ==
    \/ current_phase_id \notin DOMAIN phases
    \/ phases[current_phase_id].next_phase = ""

\* lines 46-57: the phase is not defined, or its definition lacks next_phase
\* or trigger_condition
is_terminal(phases, current_phase_id) ==
    \/ current_phase_id \notin DOMAIN phases
    \/ phases[current_phase_id].next_phase = ""
    \/ phases[current_phase_id].trigger_condition = <<>>

\* judge_consent with `confidence > 0.6` for `confidence >= 0.6`
judge_consent_strict(variables, user_message, j) ==
    LET judged == Get(variables, "awaiting_consent", FALSE) /\ user_message # ""
        affirmed == judged /\ j.consent /\ j.confidence > ConsentThreshold
    IN  [judged |-> judged,
         affirmed |-> affirmed,
         variables |->
            IF ~judged THEN variables
            ELSE IF affirmed
                 THEN Update(variables, [k \in {"consent_for_next_phase"} |-> TRUE])
                 ELSE Update(variables, [k \in {"awaiting_consent"} |-> FALSE]),
         consent_for_next_phase |->
            IF affirmed THEN TRUE
            ELSE Get(variables, "consent_for_next_phase", FALSE)]

\* lines 59-83: the consent check.  j = [consent, confidence] is the answer
\* check_consent gives if it is called.
judge_consent(variables, user_message, j) ==
    LET judged == Get(variables, "awaiting_consent", FALSE) /\ user_message # ""
        affirmed == judged /\ j.consent /\ j.confidence >= ConsentThreshold
    IN  [judged |-> judged,
         affirmed |-> affirmed,
         variables |->
            IF ~judged THEN variables
            ELSE IF affirmed
                 THEN Update(variables, [k \in {"consent_for_next_phase"} |-> TRUE])
                 ELSE Update(variables, [k \in {"awaiting_consent"} |-> FALSE]),
         consent_for_next_phase |->
            IF affirmed THEN TRUE
            ELSE Get(variables, "consent_for_next_phase", FALSE)]

\* advance_phase without the reset of turn_count_in_phase
advance_phase_keep_count(phases, state, variables, next_phase_id) ==
    LET scenes == IF next_phase_id \in DOMAIN phases
                  THEN phases[next_phase_id].scenes ELSE <<>>
    IN  [state EXCEPT
            !.scenario.current_phase = next_phase_id,
            !.scenario.variables =
                Update(variables, [k \in {"consent_for_next_phase",
                                          "awaiting_consent"} |-> FALSE]),
            !.scenario.current_scene = IF scenes # <<>> THEN Head(scenes) ELSE @]

\* lines 99-111: the transition to next_phase_id
advance_phase(phases, state, variables, next_phase_id) ==
    LET scenes == IF next_phase_id \in DOMAIN phases
                  THEN phases[next_phase_id].scenes ELSE <<>>
    IN  [state EXCEPT
            !.scenario.current_phase = next_phase_id,
            !.scenario.turn_count_in_phase = 0,
            !.scenario.variables =
                Update(variables, [k \in {"consent_for_next_phase",
                                          "awaiting_consent"} |-> FALSE]),
            !.scenario.current_scene = IF scenes # <<>> THEN Head(scenes) ELSE @]

\* an evaluation that raises counts as satisfied
satisfied_fail_open(v) == v \in {"T", "E"}

\* `if eval(...)` inside try/except: an evaluation that raises is logged and
\* counts as not satisfied
satisfied(v) == v = "T"

\* The result carries, besides the state and the returned pair, what the
\* call did: whether consent was judged and affirmed, and the errors printed.
_check_scenario_trigger(phases, state, user_message, j) ==
    LET scen == state.scenario IN
    IF is_terminal(phases, scen.current_phase)
    THEN [state |-> state, triggered |-> FALSE, proposal |-> NoInstruction,
          judged |-> FALSE, affirmed |-> FALSE, logged |-> {}]
    ELSE
    LET phase_def == phases[scen.current_phase]
        next_phase_id == phase_def.next_phase
        condition_expr == phase_def.trigger_condition
        c == judge_consent(scen.variables, user_message, j)
        context == [turn_count_in_phase |-> scen.turn_count_in_phase,
                    pleasure |-> state.emotion.pleasure,
                    arousal |-> state.emotion.arousal,
                    dominance |-> state.emotion.dominance,
                    variables |-> c.variables,
                    consent_for_next_phase |-> c.consent_for_next_phase]
        context_for_proposal == [context EXCEPT !.consent_for_next_phase = TRUE]
        trigger == eval(condition_expr, context)
        relaxed == /\ ~c.consent_for_next_phase
                   /\ ~Get(c.variables, "awaiting_consent", FALSE)
        trigger_error == IF trigger = "E" THEN {"Trigger check error"} ELSE {}
        errors == IF relaxed /\ eval(condition_expr, context_for_proposal) = "E"
                  THEN trigger_error \cup {"Proposal check error"}
                  ELSE trigger_error
    IN
    IF satisfied(trigger)
    THEN [state |-> advance_phase(phases, state, c.variables, next_phase_id),
          triggered |-> TRUE, proposal |-> NoInstruction,
          judged |-> c.judged, affirmed |-> c.affirmed, logged |-> trigger_error]
    ELSE IF relaxed /\ satisfied(eval(condition_expr, context_for_proposal))
    THEN [state |-> [state EXCEPT
                        !.scenario.variables =
                            Update(c.variables, [k \in {"awaiting_consent"} |-> TRUE])],
          triggered |-> FALSE,
          proposal |-> IF phase_def.proposal_text # ""
                       THEN <<phase_def.proposal_text>>
                       ELSE <<"propose_next_phase", next_phase_id>>,
          judged |-> c.judged, affirmed |-> c.affirmed, logged |-> errors]
    ELSE [state |-> [state EXCEPT !.scenario.variables = c.variables],
          triggered |-> FALSE, proposal |-> NoInstruction,
          judged |-> c.judged, affirmed |-> c.affirmed, logged |-> errors]

\* user messages, named by the keyword they contain ("" is the empty message)
Messages == {"", "hello", "kirai", "ikou"}

POSITIVE == {"suki"}
NEGATIVE == {"kirai"}
ACTIVE == {"ikou"}

_apply_keywords(text, emo) ==
    LET e1 == IF text \in POSITIVE
              THEN [emo EXCEPT !.pleasure = @ + Scale, !.arousal = @ + Scale \div 2]
              ELSE emo
        e2 == IF text \in NEGATIVE
              THEN [e1 EXCEPT !.pleasure = @ - (3 * Scale) \div 2,
                              !.dominance = @ - Scale \div 2]
              ELSE e1
    IN  IF text \in ACTIVE THEN [e2 EXCEPT !.arousal = @ + Scale] ELSE e2

\* _check_consent_with_rules: the keyword fallback of check_consent
CONSENT_POSITIVE == {"ikou"}
CONSENT_NEGATIVE == {"kirai"}

_check_consent_with_rules(utterance) ==
    IF utterance \in CONSENT_NEGATIVE THEN [consent |-> FALSE, confidence |-> 70]
    ELSE IF utterance \in CONSENT_POSITIVE THEN [consent |-> TRUE, confidence |-> 70]
    ELSE [consent |-> FALSE, confidence |-> 40]

\* _update_state_llm that takes the phase the answer names
_update_state_llm_phase_from_answer(state, data) ==
    LET emo == [pleasure  |-> Get(data.emotion, "pleasure", state.emotion.pleasure),
                arousal   |-> Get(data.emotion, "arousal", state.emotion.arousal),
                dominance |-> Get(data.emotion, "dominance", state.emotion.dominance)]
    IN  [updated_state |->
            [emotion  |-> decay(clamp(emo), 10),
             scenario |-> [state.scenario EXCEPT
                             !.variables = Update(@, data.variables),
                             !.current_phase = IF "current_phase" \in DOMAIN data
                                               THEN data.current_phase ELSE @,
                             !.turn_count_in_phase = @ + 1]],
         instruction_override |-> data.instruction_override]

\* The Observer service answer `data` = [emotion, variables, instruction_override]:
\* emotion and variables are dicts that may lack any key; of the scenario
\* object of the answer only the variables are read.
_update_state_llm(state, data) ==
    LET emo == [pleasure  |-> Get(data.emotion, "pleasure", state.emotion.pleasure),
                arousal   |-> Get(data.emotion, "arousal", state.emotion.arousal),
                dominance |-> Get(data.emotion, "dominance", state.emotion.dominance)]
    IN  [updated_state |->
            [emotion  |-> decay(clamp(emo), 10),
             scenario |-> [state.scenario EXCEPT
                             !.variables = Update(@, data.variables),
                             !.turn_count_in_phase = @ + 1]],
         instruction_override |-> data.instruction_override]

\* _update_state_rules without the decay of the affect
_update_state_rules_no_decay(user_message, state) ==
    [updated_state |->
        [emotion  |-> clamp(_apply_keywords(user_message, state.emotion)),
         scenario |-> [state.scenario EXCEPT !.turn_count_in_phase = @ + 1]],
     instruction_override |-> NoInstruction]

\* _update_state_rules without the increment of turn_count_in_phase
_update_state_rules_no_count(user_message, state) ==
    [updated_state |->
        [emotion  |-> decay(clamp(_apply_keywords(user_message, state.emotion)), 10),
         scenario |-> state.scenario],
     instruction_override |-> NoInstruction]

\* the rule-based fallback branch of update_state
_update_state_rules(user_message, state) ==
    [updated_state |->
        [emotion  |-> decay(clamp(_apply_keywords(user_message, state.emotion)), 10),
         scenario |-> [state.scenario EXCEPT !.turn_count_in_phase = @ + 1]],
     instruction_override |-> NoInstruction]

\* update_state: o = [llm, data] is what the Observer service does in this
\* call (llm = FALSE: provider unavailable or the call failed), j the consent
\* judgment.  The result carries, besides the ObservationResult, what the
\* call did: the state handed to the trigger check and the check's outcome.
update_state(phases, user_message, state, o, j) ==
    LET result == IF o.llm THEN _update_state_llm(state, o.data)
                           ELSE _update_state_rules(user_message, state)
        chk == _check_scenario_trigger(phases, result.updated_state, user_message, j)
    IN  [updated_state |-> chk.state,
         instruction_override |->
            IF chk.triggered
            THEN result.instruction_override \o <<"PHASE CHANGED">>
            ELSE IF chk.proposal # NoInstruction
            THEN result.instruction_override \o <<"PROPOSE TRANSITION">> \o chk.proposal
            ELSE result.instruction_override,
         source |-> IF o.llm THEN "llm" ELSE "rules_fallback",
         checked |-> result.updated_state,
         triggered |-> chk.triggered,
         proposal |-> chk.proposal,
         judged |-> chk.judged,
         affirmed |-> chk.affirmed,
         logged |-> chk.logged]

----------------------------------------------------------------------------
(* Inputs of a turn *)

\* complete emotion dicts the Observer service may return: in range, and out
\* of range on every axis
EmotionHigh ==
    [k \in {"pleasure", "arousal", "dominance"} |->
        CASE k = "pleasure" -> 6 * Scale [] k = "arousal" -> 2 * Scale [] OTHER -> Scale]
EmotionOut ==
    [k \in {"pleasure", "arousal", "dominance"} |->
        CASE k = "pleasure" -> 0 - 25 * Scale [] k = "arousal" -> 30 * Scale
          [] OTHER -> 0 - 12 * Scale]

\* scenario.variables dicts the Observer service may return
LLMVariables ==
    {EmptyVars,
     [k \in {"visited"} |-> TRUE],
     [k \in {"consent_for_next_phase"} |-> TRUE],
     [k \in {"awaiting_consent"} |-> TRUE]}

Answer(e, v, i) ==
    [llm |-> TRUE, data |-> [emotion |-> e, variables |-> v, instruction_override |-> i]]

\* llm = FALSE: the provider is unavailable or the call raised
Outage == [llm |-> FALSE,
           data |-> [emotion |-> EmptyVars, variables |-> EmptyVars,
                     instruction_override |-> NoInstruction]]

\* an answer whose scenario object names a phase besides its variables
Steering ==
    [llm |-> TRUE,
     data |-> [emotion |-> EmotionHigh, variables |-> EmptyVars,
               instruction_override |-> NoInstruction,
               current_phase |-> "phase_4_stage"]]

ObserverAnswers ==
    {Answer(e, v, NoInstruction) : e \in {EmotionHigh, EmotionOut}, v \in LLMVariables}
    \cup {Answer(EmotionHigh, EmptyVars, <<"be_happy">>), Steering}

\* answers of the consent judgment service
LLMConsents ==
    {[consent |-> TRUE, confidence |-> 60],
     [consent |-> TRUE, confidence |-> 59],
     [consent |-> FALSE, confidence |-> 90]}

\* check_consent: the service answer, or the keyword rules when the call fails
check_consent(utterance) == LLMConsents \cup {_check_consent_with_rules(utterance)}

----------------------------------------------------------------------------
(* The observer session: consecutive update_state calls on one user's state *)

NoJudgment == [consent |-> FALSE, confidence |-> 0]

NoObs ==
    [source |-> "none", user_message |-> "", entry |-> NewUserState.scenario,
     triggered |-> FALSE, proposal |-> NoInstruction, judged |-> FALSE,
     judgment |-> NoJudgment, instruction_override |-> NoInstruction,
     after_proposal |-> FALSE, logged |-> {}]

\* the record of an update_state call: its inputs, what it returned and what
\* it did (entry: the scenario handed to the trigger check; judgment: the
\* answer of check_consent if it was called; after_proposal: the call before
\* this one returned a proposal; logged: the errors the trigger check printed)
ObsOf(m, j, r) ==
    [source |-> r.source, user_message |-> m, entry |-> r.checked.scenario,
     triggered |-> r.triggered, proposal |-> r.proposal, judged |-> r.judged,
     judgment |-> IF r.judged THEN j ELSE NoJudgment,
     instruction_override |-> r.instruction_override,
     after_proposal |-> obs.proposal # NoInstruction,
     logged |-> r.logged]

InitObserver ==
    /\ story \in ScenarioFiles
    /\ ustate = NewUserState
    /\ obs = NoObs
    /\ outages = 0
    /\ call = NoCall
    /\ registry = "missing"
    /\ db = <<>>
    /\ w = <<>>
    /\ chat_logs = <<>>
    /\ mode = "legacy"

\* one update_state call answered by the Observer service
ObserverTurn(m, o, j) ==
    /\ ustate.scenario.turn_count_in_phase < MaxTurn
    /\ LET r == update_state(SCENARIO_DATA(story), m, ustate, o, j)
       IN  ustate' = r.updated_state /\ obs' = ObsOf(m, j, r)
    /\ UNCHANGED <<chat_logs, call, registry, outages, db, w, mode, story>>

\* one update_state call while the Observer service is unavailable
ObserverFallbackTurn(m, j) ==
    /\ ustate.scenario.turn_count_in_phase < MaxTurn
    /\ outages < MaxOutages
    /\ outages' = outages + 1
    /\ LET r == update_state(SCENARIO_DATA(story), m, ustate, Outage, j)
       IN  ustate' = r.updated_state /\ obs' = ObsOf(m, j, r)
    /\ UNCHANGED <<chat_logs, call, registry, db, w, mode, story>>

NextObserver ==
    \E m \in Messages : \E j \in check_consent(m) :
        \/ \E o \in ObserverAnswers : ObserverTurn(m, o, j)
        \/ ObserverFallbackTurn(m, j)

SpecObserver == InitObserver /\ [][NextObserver]_vars

\* the session on a story whose trigger conditions can raise
InitTrigger ==
    /\ story = "skip_story"
    /\ ustate = NewUserState
    /\ obs = NoObs
    /\ outages = 0
    /\ call = NoCall
    /\ registry = "missing"
    /\ db = <<>>
    /\ w = <<>>
    /\ chat_logs = <<>>
    /\ mode = "legacy"

SpecTrigger == InitTrigger /\ [][NextObserver]_vars

\* the session with an Observer service that leaves the two reserved consent
\* variables alone
PlainAnswers ==
    {o \in ObserverAnswers :
        DOMAIN o.data.variables \cap {"awaiting_consent", "consent_for_next_phase"} = {}}

NextObserverPlain ==
    \E m \in Messages : \E j \in check_consent(m) :
        \/ \E o \in PlainAnswers : ObserverTurn(m, o, j)
        \/ ObserverFallbackTurn(m, j)

SpecObserverPlain == InitObserver /\ [][NextObserverPlain]_vars

----------------------------------------------------------------------------
(* orchestration/rules: the catalog of RuleRegistry and RuleSelector.  A     *)
(* condition is a dict, kept as the sequence of its items in insertion       *)
(* order; a value carries its Python type.  Affect thresholds are in units   *)
(* of 1/Scale like the affect values.                                        *)

Num(n) == [type |-> "num", n |-> n]
Str(s) == [type |-> "str", s |-> s]
Bool(b) == [type |-> "bool", b |-> b]
List(items) == [type |-> "list", items |-> items]
Dict(d) == [type |-> "dict", d |-> d]
Item(key, value) == [key |-> key, value |-> value]
Op1(op, t) == Dict([k \in {op} |-> t])

\* one `if op in value and actual <cmp> value[op]: return False` test:
\* "T" the test passes, "F" it returns False, "E" the comparison raises
\* TypeError (a number ordered against a value that is not a number)
OpTest(actual, op, t) ==
    IF op = "$eq"
    THEN IF t.type = "num" /\ t.n = actual THEN "T" ELSE "F"
    ELSE IF t.type # "num" THEN "E"
    ELSE IF CASE op = "$lte" -> actual <= t.n
              [] op = "$gte" -> actual >= t.n
              [] op = "$lt"  -> actual < t.n
              [] OTHER       -> actual > t.n
         THEN "T" ELSE "F"

\* the operator tests of one key, in the order the source makes them
RECURSIVE OpTests(_, _, _)
OpTests(actual, d, tested) ==
    IF tested = <<>> THEN "T"
    ELSE LET r == IF Head(tested) \in DOMAIN d
                  THEN OpTest(actual, Head(tested), d[Head(tested)]) ELSE "T"
         IN  IF r = "T" THEN OpTests(actual, d, Tail(tested)) ELSE r

\* a numeric key: the operators of `tested` when the value is a dict,
\* `actual != value` otherwise
NumberTest(actual, value, tested) ==
    IF value.type = "dict" THEN OpTests(actual, value.d, tested)
    ELSE IF value.type = "num" /\ value.n = actual THEN "T" ELSE "F"

\* state.scenario.variables.get(var_key) != var_value
VariableDiffers(variables, var_key, var_value) ==
    IF var_key \in DOMAIN variables
    THEN ~(var_value.type = "bool" /\ var_value.b = variables[var_key])
    ELSE TRUE

SCOLDED == {"baka"}

\* one key of the condition (lines 81-163); a key the source does not name,
\* and a value of a type a branch does not expect, is passed over
KeyTest(key, value, state, user_message) ==
    CASE key = "current_scene" ->
            IF value.type = "str" /\ value.s = state.scenario.current_scene
            THEN "T" ELSE "F"
      [] key = "current_phase" ->
            IF value.type = "dict" /\ "$in" \in DOMAIN value.d
            THEN IF value.d["$in"].type # "list" THEN "E"
                 ELSE IF state.scenario.current_phase \in value.d["$in"].items
                      THEN "T" ELSE "F"
            ELSE IF value.type = "str" /\ value.s = state.scenario.current_phase
                 THEN "T" ELSE "F"
      [] key = "turn_count_in_phase" ->
            NumberTest(state.scenario.turn_count_in_phase, value,
                       <<"$lte", "$gte", "$lt", "$gt", "$eq">>)
      [] key = "arousal" ->
            NumberTest(state.emotion.arousal, value, <<"$gte", "$lte">>)
      [] key = "pleasure" ->
            NumberTest(state.emotion.pleasure, value, <<"$gte", "$lte">>)
      [] key = "dominance" ->
            NumberTest(state.emotion.dominance, value, <<"$gte", "$lte">>)
      [] key = "context_keywords" ->
            IF value.type = "list" /\ user_message \notin value.items
            THEN "F" ELSE "T"
      [] key = "emotion" ->
            IF value.type = "str" /\ value.s = "scolded" /\ user_message \notin SCOLDED
            THEN "F" ELSE "T"
      [] key = "variables" ->
            IF /\ value.type = "dict"
               /\ \E k \in DOMAIN value.d :
                     VariableDiffers(state.scenario.variables, k, value.d[k])
            THEN "F" ELSE "T"
      [] OTHER -> "T"

\* RuleSelector._evaluate_condition: "T" True, "F" False, "E" raises
RECURSIVE _evaluate_condition(_, _, _)
_evaluate_condition(condition, state, user_message) ==
    IF condition = <<>> THEN "T"
    ELSE LET r == KeyTest(Head(condition).key, Head(condition).value,
                          state, user_message)
         IN  IF r = "T" THEN _evaluate_condition(Tail(condition), state, user_message)
             ELSE r

\* function_name "": the rule names no custom function
HardRule(id, check_type, action_on_violation, function_name) ==
    [id |-> id, check_type |-> check_type, action_on_violation |-> action_on_violation,
     function_name |-> function_name]

\* condition <<>>: the rule has no condition (None or an empty dict)
SoftRule(id, check_type, action_on_violation, function_name, condition) ==
    [id |-> id, check_type |-> check_type,
     action_on_violation |-> action_on_violation,
     function_name |-> function_name, condition |-> condition]

StateDependentRule(id, condition, check_type, required_elements, allow_nsfw) ==
    [id |-> id, condition |-> condition, check_type |-> check_type,
     required_elements |-> required_elements, allow_nsfw |-> allow_nsfw]

Registry(hard, soft, sdr) ==
    [hard_rules |-> hard, soft_rules |-> soft, state_dependent_rules |-> sdr]

HardRules ==
    <<HardRule("no_meta", "regex_forbidden", "block", ""),
      HardRule("max_length", "length_max", "trim", ""),
      HardRule("ehehe_interval", "custom_function", "rewrite", "check_ehehe_frequency"),
      HardRule("stay_in_character", "llm_semantic", "rewrite", "")>>

\* a catalog whose conditions use what the selector evaluates
BehaviorRules ==
    Registry(HardRules,
      <<SoftRule("no_parrot", "llm_semantic", "rewrite", "", <<>>),
        SoftRule("be_brief", "custom_function", "trim", "check_length",
                 <<Item("turn_count_in_phase", Op1("$gte", Num(2)))>>),
        SoftRule("deepen_talk", "llm_semantic", "rewrite", "",
                 <<Item("turn_count_in_phase", Op1("$gte", Num(3)))>>),
        SoftRule("soothe", "llm_semantic", "rewrite", "",
                 <<Item("emotion", Str("scolded"))>>),
        SoftRule("go_along", "llm_semantic", "rewrite", "",
                 <<Item("context_keywords", List({"ikou"})),
                   Item("dominance", Num(0))>>)>>,
      <<StateDependentRule("introduce_self",
                 <<Item("current_scene", Str("scene_station_front"))>>,
                 "regex_required", <<"name">>, FALSE),
        StateDependentRule("cafe_mood",
                 <<Item("current_phase", Op1("$in", List({"phase_2_cafe", "phase_3_lesson"})))>>,
                 "none", <<>>, TRUE),
        StateDependentRule("after_visit",
                 <<Item("pleasure", Op1("$gte", Num(5 * Scale))),
                   Item("variables", Dict([k \in {"visited"} |-> Bool(TRUE)]))>>,
                 "llm_semantic", <<>>, TRUE)>>)

\* a catalog with a condition on a variable the selector does not know and
\* with a threshold that is a string
BrokenRules ==
    Registry(HardRules,
      <<SoftRule("no_parrot", "llm_semantic", "rewrite", "", <<>>),
        SoftRule("when_close", "llm_semantic", "rewrite", "",
                 <<Item("affection", Op1("$gte", Num(3)))>>)>>,
      <<StateDependentRule("late_turn",
                 <<Item("turn_count_in_phase", Op1("$gte", Num(2))),
                   Item("arousal", Op1("$gte", Str("high")))>>,
                 "none", <<>>, FALSE)>>)

\* a catalog whose rules of every kind ask for the reply to be blocked
BlockingRules ==
    Registry(<<HardRule("no_meta", "regex_forbidden", "block", ""),
               HardRule("ehehe_interval", "custom_function", "block",
                        "check_ehehe_frequency")>>,
             <<SoftRule("be_brief", "custom_function", "block", "check_length", <<>>),
               SoftRule("soothe", "llm_semantic", "block", "", <<>>)>>,
             <<>>)

TurnThreshold == 2
PleasureThreshold == 0
ArousalThreshold == 2 * Scale - 2
DominanceThreshold == 0

OperatorRule(id, key, op, t) ==
    SoftRule(id, "llm_semantic", "rewrite", "", <<Item(key, Op1(op, t))>>)

\* a catalog with one advisory rule for every operator on every numeric
\* variable, and a conditional rule that unlocks restricted content
OperatorRules ==
    Registry(HardRules,
      <<
       OperatorRule("turn_in", "turn_count_in_phase", "$in", List({TurnThreshold})),
       OperatorRule("turn_lte", "turn_count_in_phase", "$lte", Num(TurnThreshold)),
       OperatorRule("turn_gte", "turn_count_in_phase", "$gte", Num(TurnThreshold)),
       OperatorRule("turn_lt", "turn_count_in_phase", "$lt", Num(TurnThreshold)),
       OperatorRule("turn_gt", "turn_count_in_phase", "$gt", Num(TurnThreshold)),
       OperatorRule("turn_eq", "turn_count_in_phase", "$eq", Num(TurnThreshold)),
       OperatorRule("pleasure_in", "pleasure", "$in", List({PleasureThreshold})),
       OperatorRule("pleasure_lte", "pleasure", "$lte", Num(PleasureThreshold)),
       OperatorRule("pleasure_gte", "pleasure", "$gte", Num(PleasureThreshold)),
       OperatorRule("pleasure_lt", "pleasure", "$lt", Num(PleasureThreshold)),
       OperatorRule("pleasure_gt", "pleasure", "$gt", Num(PleasureThreshold)),
       OperatorRule("pleasure_eq", "pleasure", "$eq", Num(PleasureThreshold)),
       OperatorRule("arousal_in", "arousal", "$in", List({ArousalThreshold})),
       OperatorRule("arousal_lte", "arousal", "$lte", Num(ArousalThreshold)),
       OperatorRule("arousal_gte", "arousal", "$gte", Num(ArousalThreshold)),
       OperatorRule("arousal_lt", "arousal", "$lt", Num(ArousalThreshold)),
       OperatorRule("arousal_gt", "arousal", "$gt", Num(ArousalThreshold)),
       OperatorRule("arousal_eq", "arousal", "$eq", Num(ArousalThreshold)),
       OperatorRule("dominance_in", "dominance", "$in", List({DominanceThreshold})),
       OperatorRule("dominance_lte", "dominance", "$lte", Num(DominanceThreshold)),
       OperatorRule("dominance_gte", "dominance", "$gte", Num(DominanceThreshold)),
       OperatorRule("dominance_lt", "dominance", "$lt", Num(DominanceThreshold)),
       OperatorRule("dominance_gt", "dominance", "$gt", Num(DominanceThreshold)),
       OperatorRule("dominance_eq", "dominance", "$eq", Num(DominanceThreshold))
      >>,
      <<StateDependentRule("excited_only",
                 <<Item("arousal", Op1("$gt", Num(ArousalThreshold)))>>,
                 "none", <<>>, TRUE)>>)

\* RuleRegistry._load_rules finds no rules file
NoRules == Registry(<<>>, <<>>, <<>>)

RuleFiles == {"behavior_rules", "broken_rules", "operator_rules", "missing"}

RULES(file) ==
    CASE file = "behavior_rules" -> BehaviorRules
      [] file = "broken_rules" -> BrokenRules
      [] file = "operator_rules" -> OperatorRules
      [] file = "blocking_rules" -> BlockingRules
      [] OTHER -> NoRules

\* RuleSelector.select_rules; raised: a condition evaluation raised and no
\* SelectedRules is returned.  The summary text is left out.
select_rules(rules, state, user_message) ==
    LET SoftVerdict(rule) ==
            IF rule.condition # <<>>
            THEN _evaluate_condition(rule.condition, state, user_message) ELSE "T"
        SdrVerdict(rule) == _evaluate_condition(rule.condition, state, user_message)
        raised == \/ \E k \in 1..Len(rules.soft_rules) :
                        SoftVerdict(rules.soft_rules[k]) = "E"
                  \/ \E k \in 1..Len(rules.state_dependent_rules) :
                        SdrVerdict(rules.state_dependent_rules[k]) = "E"
        applicable_sdr == SelectSeq(rules.state_dependent_rules,
                                    LAMBDA rule : SdrVerdict(rule) = "T")
    IN  IF raised
        THEN [raised |-> TRUE, hard_rules |-> <<>>, soft_rules |-> <<>>,
              state_dependent_rules |-> <<>>, allow_nsfw |-> FALSE]
        ELSE [raised |-> FALSE,
              hard_rules |-> rules.hard_rules,
              soft_rules |-> SelectSeq(rules.soft_rules,
                                       LAMBDA rule : SoftVerdict(rule) = "T"),
              state_dependent_rules |-> applicable_sdr,
              allow_nsfw |-> \E k \in 1..Len(applicable_sdr) :
                                applicable_sdr[k].allow_nsfw]

----------------------------------------------------------------------------
(* orchestration/validation/output_validator.py.  A candidate text is given  *)
(* by what the local checks find in it: hits, the ids of the rules whose     *)
(* pattern, length or custom function reports a violation of the text, and   *)
(* contains, the required elements that occur in it.                         *)

Text(hits, contains) == [hits |-> hits, contains |-> contains]

RuleViolation(rule_id, severity, suggested_action) ==
    [rule_id |-> rule_id, severity |-> severity, suggested_action |-> suggested_action]

RECURSIVE Flatten(_)
Flatten(lists) == IF lists = <<>> THEN <<>> ELSE Head(lists) \o Flatten(Tail(lists))

\* _register_default_checkers
custom_checkers == {"check_ehehe_frequency", "check_topic_stagnation", "check_length"}

\* checker(text, history, rule.params) of a registered checker returns a
\* message; check_topic_stagnation never does
CheckerReports(rule, text) ==
    /\ rule.function_name \in custom_checkers
    /\ rule.function_name # "check_topic_stagnation"
    /\ rule.id \in text.hits

\* the check types HardRule.check handles
StandardChecks == {"regex_forbidden", "regex_required", "length_max", "length_min"}

\* _check_hard_rule that reports every violation as high
_check_hard_rule_always_high(rule, text) ==
    IF rule.check_type = "custom_function" /\ rule.function_name # ""
    THEN IF CheckerReports(rule, text)
         THEN <<RuleViolation(rule.id, "high", rule.action_on_violation)>> ELSE <<>>
    ELSE IF rule.check_type = "llm_semantic" THEN <<>>
    ELSE IF rule.check_type \in StandardChecks /\ rule.id \in text.hits
    THEN <<RuleViolation(rule.id, "high", rule.action_on_violation)>>
    ELSE <<>>

\* each check returns the sequence of its violations: none or one
_check_hard_rule(rule, text) ==
    IF rule.check_type = "custom_function" /\ rule.function_name # ""
    THEN IF CheckerReports(rule, text)
         THEN <<RuleViolation(rule.id, "high", rule.action_on_violation)>> ELSE <<>>
    ELSE IF rule.check_type = "llm_semantic" THEN <<>>
    ELSE IF rule.check_type \in StandardChecks /\ rule.id \in text.hits
    THEN <<RuleViolation(rule.id,
                         IF rule.action_on_violation = "block" THEN "critical" ELSE "high",
                         rule.action_on_violation)>>
    ELSE <<>>

_check_custom_rule(rule, text) ==
    IF rule.function_name # "" /\ CheckerReports(rule, text)
    THEN <<RuleViolation(rule.id, "medium", rule.action_on_violation)>> ELSE <<>>

\* action_on_violation of the conditional rules is None: REWRITE is suggested
_check_state_dependent_rule(rule, text) ==
    IF rule.check_type = "none" THEN <<>>
    ELSE IF \E k \in 1..Len(rule.required_elements) :
               rule.required_elements[k] \notin text.contains
    THEN <<RuleViolation(rule.id, "high", "rewrite")>>
    ELSE <<>>

\* _check_soft_rules_llm that takes every returned id for a violation
_check_soft_rules_llm_unfiltered(rules, answer) ==
    IF rules = <<>> \/ ~answer.ok THEN <<>>
    ELSE [k \in 1..Len(answer.violations) |->
             RuleViolation(answer.violations[k], "medium", "rewrite")]

\* _check_soft_rules_llm: answer is what the semantic check service returns,
\* ok = FALSE when the call fails or its answer cannot be parsed
_check_soft_rules_llm(rules, answer) ==
    IF rules = <<>> \/ ~answer.ok THEN <<>>
    ELSE LET known == SelectSeq(answer.violations,
                                LAMBDA id : \E k \in 1..Len(rules) : rules[k].id = id)
             rule(id) == rules[CHOOSE k \in 1..Len(rules) : rules[k].id = id]
         IN  [k \in 1..Len(known) |->
                 RuleViolation(known[k], "medium", rule(known[k]).action_on_violation)]

\* validate that asks the semantic check service whatever the local checks found
validate_always_llm(text, selected_rules, answer) ==
    LET hard == [k \in 1..Len(selected_rules.hard_rules) |->
                    _check_hard_rule(selected_rules.hard_rules[k], text)]
        custom == [k \in 1..Len(selected_rules.soft_rules) |->
                    IF /\ selected_rules.soft_rules[k].check_type = "custom_function"
                       /\ selected_rules.soft_rules[k].function_name # ""
                    THEN _check_custom_rule(selected_rules.soft_rules[k], text)
                    ELSE <<>>]
        sdr == [k \in 1..Len(selected_rules.state_dependent_rules) |->
                    _check_state_dependent_rule(
                        selected_rules.state_dependent_rules[k], text)]
        local == Flatten(hard) \o Flatten(custom) \o Flatten(sdr)
        llm_soft_rules == SelectSeq(selected_rules.soft_rules,
                                    LAMBDA r : r.check_type = "llm_semantic")
        called == llm_soft_rules # <<>>
        violations == IF called
                      THEN local \o _check_soft_rules_llm(llm_soft_rules, answer)
                      ELSE local
    IN  [is_valid |-> violations = <<>>,
         violations |-> violations,
         local |-> Len(local),
         llm_calls |-> IF called THEN 1 ELSE 0]

\* OutputValidator.validate.  Besides the ValidationResult the result tells
\* how many violations the local checks (steps 1-3) had produced when step 4
\* was reached and how many calls of the semantic check service were made.
validate(text, selected_rules, answer) ==
    LET hard == [k \in 1..Len(selected_rules.hard_rules) |->
                    _check_hard_rule(selected_rules.hard_rules[k], text)]
        custom == [k \in 1..Len(selected_rules.soft_rules) |->
                    IF /\ selected_rules.soft_rules[k].check_type = "custom_function"
                       /\ selected_rules.soft_rules[k].function_name # ""
                    THEN _check_custom_rule(selected_rules.soft_rules[k], text)
                    ELSE <<>>]
        sdr == [k \in 1..Len(selected_rules.state_dependent_rules) |->
                    _check_state_dependent_rule(
                        selected_rules.state_dependent_rules[k], text)]
        local == Flatten(hard) \o Flatten(custom) \o Flatten(sdr)
        llm_soft_rules == SelectSeq(selected_rules.soft_rules,
                                    LAMBDA r : r.check_type = "llm_semantic")
        called == /\ ~\E k \in 1..Len(local) : local[k].severity = "critical"
                  /\ llm_soft_rules # <<>>
        violations == IF called
                      THEN local \o _check_soft_rules_llm(llm_soft_rules, answer)
                      ELSE local
    IN  [is_valid |-> violations = <<>>,
         violations |-> violations,
         local |-> Len(local),
         llm_calls |-> IF called THEN 1 ELSE 0]

\* ValidationResult.has_critical
has_critical(result) ==
    \E k \in 1..Len(result.violations) : result.violations[k].severity = "critical"

\* needs_fix that takes only critical violations for a reason to repair
needs_fix_critical_only(result) ==
    \E k \in 1..Len(result.violations) : result.violations[k].severity = "critical"

\* ValidationResult.needs_fix
needs_fix(result) ==
    \E k \in 1..Len(result.violations) :
        result.violations[k].severity \in {"critical", "high"}

----------------------------------------------------------------------------
(* orchestration/validation/output_fixer.py.  A text to repair is a sequence *)
(* of runs: Run(c, n) is n times the character c, Ch(c) the character once.  *)
(* Only the letter "a" comes in runs longer than one.  Characters outside    *)
(* ASCII are written by name.                                                *)

Ch(c) == [ch |-> c, n |-> 1]
Run(c, n) == [ch |-> c, n |-> n]

\* len(text)
RECURSIVE len(_)
len(text) == IF text = <<>> THEN 0 ELSE Head(text).n + len(Tail(text))

\* text[:k]
RECURSIVE Take(_, _)
Take(text, k) ==
    IF text = <<>> \/ k <= 0 THEN <<>>
    ELSE IF Head(text).n <= k THEN <<Head(text)>> \o Take(Tail(text), k - Head(text).n)
    ELSE <<Run(Head(text).ch, k)>>

\* what \s of a pattern and str.strip() take for white space
WHITESPACE == {" ", "\n", "\t", "ideographic_space"}
QUOTES == {"\"", "'"}

\* text.lstrip(chars), text.rstrip(chars), text.strip(chars)
RECURSIVE lstrip(_, _)
lstrip(text, chars) ==
    IF text # <<>> /\ Head(text).ch \in chars THEN lstrip(Tail(text), chars) ELSE text

RECURSIVE rstrip(_, _)
rstrip(text, chars) ==
    IF text # <<>> /\ text[Len(text)].ch \in chars
    THEN rstrip(SubSeq(text, 1, Len(text) - 1), chars) ELSE text

strip(text, chars) == rstrip(lstrip(text, chars), chars)

\* the first four of OutputFixer._narration_patterns: an opening character,
\* one or more characters other than the closing one, the closing character
Enclosed(open, close) == [open |-> open, close |-> close]

_narration_patterns ==
    <<Enclosed("fullwidth_(", "fullwidth_)"),
      Enclosed("(", ")"),
      Enclosed("*", "*"),
      Enclosed("lenticular_[", "lenticular_]")>>

\* re.sub(pattern, "", text) for one of these patterns
RECURSIVE sub_enclosed(_, _)
sub_enclosed(pattern, text) ==
    IF text = <<>> THEN <<>>
    ELSE IF /\ Head(text).ch = pattern.open
            /\ \E j \in 2..Len(text) : text[j].ch = pattern.close
    THEN LET j == CHOOSE j \in 2..Len(text) :
                      /\ text[j].ch = pattern.close
                      /\ \A k \in 2..(j - 1) : text[k].ch # pattern.close
         IN  IF j > 2
             THEN sub_enclosed(pattern, SubSeq(text, j + 1, Len(text)))
             ELSE <<Head(text)>> \o sub_enclosed(pattern, Tail(text))
    ELSE <<Head(text)>> \o sub_enclosed(pattern, Tail(text))

\* the fifth pattern: the name of the character, a colon, any white space
NAME == <<"se", "i", "ra">>
COLONS == {":", "fullwidth_:"}

RECURSIVE sub_name(_)
sub_name(text) ==
    IF text = <<>> THEN <<>>
    ELSE IF /\ Len(text) >= Len(NAME) + 1
            /\ \A k \in 1..Len(NAME) : text[k].ch = NAME[k]
            /\ text[Len(NAME) + 1].ch \in COLONS
    THEN sub_name(lstrip(SubSeq(text, Len(NAME) + 2, Len(text)), WHITESPACE))
    ELSE <<Head(text)>> \o sub_name(Tail(text))

\* re.sub(r"\s+", " ", text)
RECURSIVE sub_spaces(_)
sub_spaces(text) ==
    IF text = <<>> THEN <<>>
    ELSE IF Head(text).ch \in WHITESPACE
    THEN <<Ch(" ")>> \o sub_spaces(lstrip(text, WHITESPACE))
    ELSE <<Head(text)>> \o sub_spaces(Tail(text))

RECURSIVE sub_patterns(_, _)
sub_patterns(patterns, text) ==
    IF patterns = <<>> THEN text
    ELSE sub_patterns(Tail(patterns), sub_enclosed(Head(patterns), text))

\* OutputFixer._apply_remove: the text and whether it was fixed
_apply_remove(text, violation) ==
    LET removed == sub_spaces(sub_name(sub_patterns(_narration_patterns, text)))
    IN  [text |-> strip(removed, WHITESPACE), was_fixed |-> removed # text]

max_chars == 200
DELIMITERS == {"maru", "fullwidth_!", "fullwidth_?"}

\* OutputFixer._apply_trim: the sentences from the start that fit in
\* max_chars; when not one fits, the text cut and an ellipsis
_apply_trim(text, violation) ==
    IF len(text) <= max_chars THEN [text |-> text, was_fixed |-> FALSE]
    ELSE LET ends == {k \in 1..Len(text) :
                         /\ text[k].ch \in DELIMITERS
                         /\ len(SubSeq(text, 1, k)) <= max_chars}
             last == CHOOSE k \in ends : \A j \in ends : j <= k
         IN  [text |-> IF ends # {} THEN SubSeq(text, 1, last)
                       ELSE Take(text, max_chars - 3) \o <<Ch("ellipsis")>>,
              was_fixed |-> TRUE]

\* a call of _apply_remove, _apply_trim or the generation service as fix
\* makes it: the operation and the ids of the violations it is made for
FixStep(op, rule_ids) == [op |-> op, rule_ids |-> rule_ids]

\* the REMOVE / TRIM loop of fix and of fix_quick over the violations:
\* the text, the applied fixes, the violations left and the calls made
RECURSIVE repair(_, _)
repair(text, violations) ==
    IF violations = <<>>
    THEN [text |-> text, applied_fixes |-> <<>>, remaining |-> <<>>, steps |-> <<>>]
    ELSE LET v == Head(violations)
             r == IF v.suggested_action = "remove" THEN _apply_remove(text, v)
                  ELSE IF v.suggested_action = "trim" THEN _apply_trim(text, v)
                  ELSE [text |-> text, was_fixed |-> FALSE]
             rest == repair(r.text, Tail(violations))
         IN  [text |-> rest.text,
              applied_fixes |-> (IF r.was_fixed THEN <<v.rule_id>> ELSE <<>>)
                                   \o rest.applied_fixes,
              remaining |-> (IF r.was_fixed THEN <<>> ELSE <<v>>) \o rest.remaining,
              steps |-> (IF v.suggested_action \in {"remove", "trim"}
                         THEN <<FixStep(v.suggested_action, <<v.rule_id>>)>>
                         ELSE <<>>) \o rest.steps]

\* answers of the generation service to the rewrite prompt: the call
\* raises, or returns a text
ChatRaises == [raises |-> TRUE, text |-> <<>>]
ChatReturns(text) == [raises |-> FALSE, text |-> text]

RuleIds(violations) == [k \in 1..Len(violations) |-> violations[k].rule_id]

\* _apply_llm_rewrite that never takes the answer of the service
_apply_llm_rewrite_keep(text, violations, answer) == text

\* OutputFixer._apply_llm_rewrite
_apply_llm_rewrite(text, violations, answer) ==
    IF answer.raises THEN text
    ELSE IF answer.text # <<>> THEN strip(strip(answer.text, WHITESPACE), QUOTES)
    ELSE text

\* a ValidationResult as the fixer reads it
ValidationResult(violations) ==
    [is_valid |-> Len(violations) = 0, violations |-> violations]

\* OutputFixer.fix that repairs what it can when a violation asks for BLOCK
OutputFixer_fix_past_block(original_text, validation_result, answer) ==
    IF validation_result.is_valid
    THEN [success |-> TRUE, fixed_text |-> original_text, applied_fixes |-> <<>>,
          remaining_violations |-> <<>>, steps |-> <<>>]
    ELSE LET block_violations == SelectSeq(validation_result.violations,
                                     LAMBDA v : v.suggested_action = "block")
             fixed == repair(original_text, validation_result.violations)
             rewrite_violations == SelectSeq(validation_result.violations,
                                       LAMBDA v : v.suggested_action = "rewrite")
         IN  [success |-> block_violations = <<>>,
              fixed_text |->
                  IF rewrite_violations # <<>>
                  THEN _apply_llm_rewrite(fixed.text, rewrite_violations, answer)
                  ELSE fixed.text,
              applied_fixes |-> fixed.applied_fixes \o RuleIds(rewrite_violations),
              remaining_violations |-> block_violations,
              steps |-> fixed.steps \o
                  (IF rewrite_violations # <<>>
                   THEN <<FixStep("chat", RuleIds(rewrite_violations))>>
                   ELSE <<>>)]

\* OutputFixer.fix on texts: besides the FixResult the result tells the
\* calls of _apply_remove, _apply_trim and of the generation service made
OutputFixer_fix(original_text, validation_result, answer) ==
    IF validation_result.is_valid
    THEN [success |-> TRUE, fixed_text |-> original_text, applied_fixes |-> <<>>,
          remaining_violations |-> <<>>, steps |-> <<>>]
    ELSE LET block_violations == SelectSeq(validation_result.violations,
                                     LAMBDA v : v.suggested_action = "block")
             fixed == repair(original_text, validation_result.violations)
             rewrite_violations == SelectSeq(validation_result.violations,
                                       LAMBDA v : v.suggested_action = "rewrite")
         IN  IF block_violations # <<>>
             THEN [success |-> FALSE, fixed_text |-> <<>>, applied_fixes |-> <<>>,
                   remaining_violations |-> block_violations, steps |-> <<>>]
             ELSE [success |-> TRUE,
                   fixed_text |->
                       IF rewrite_violations # <<>>
                       THEN _apply_llm_rewrite(fixed.text, rewrite_violations, answer)
                       ELSE fixed.text,
                   applied_fixes |-> fixed.applied_fixes \o RuleIds(rewrite_violations),
                   remaining_violations |-> <<>>,
                   steps |-> fixed.steps \o
                       (IF rewrite_violations # <<>>
                        THEN <<FixStep("chat", RuleIds(rewrite_violations))>>
                        ELSE <<>>)]

\* OutputFixer.fix_quick
fix_quick(text, violations) ==
    LET fixed == repair(text, violations)
    IN  [success |-> Len(fixed.remaining) = 0,
         fixed_text |-> fixed.text,
         applied_fixes |-> fixed.applied_fixes,
         remaining_violations |-> fixed.remaining,
         steps |-> fixed.steps]

----------------------------------------------------------------------------
(* Rule selection in the turns of one user: update_state, then select_rules  *)
(* on the updated state and the utterance of the turn                        *)

RulesMessages == {"hello", "ikou", "baka"}
RulesAnswers ==
    {Outage,
     Answer(EmotionHigh, EmptyVars, NoInstruction),
     Answer(EmotionOut, [k \in {"visited"} |-> TRUE], NoInstruction)}

InitRules ==
    /\ registry \in RuleFiles
    /\ story = "idol_story"
    /\ ustate = NewUserState
    /\ call = [op |-> "new", previous_allow_nsfw |-> FALSE]
    /\ obs = NoObs
    /\ outages = 0
    /\ mode = "graph"
    /\ db = <<>>
    /\ w = <<>>
    /\ chat_logs = <<>>

\* update_state of the turn
Observe(m, o, j) ==
    /\ call.op \in {"new", "select_rules", "validate"}
    /\ ustate.scenario.turn_count_in_phase < MaxTurn
    /\ ustate' = update_state(SCENARIO_DATA(story), m, ustate, o, j).updated_state
    /\ call' = [op |-> "observe", user_message |-> m,
                previous_allow_nsfw |->
                    IF call.op = "select_rules" /\ ~call.result.raised
                    THEN call.result.allow_nsfw ELSE call.previous_allow_nsfw]
    /\ UNCHANGED <<chat_logs, obs, outages, story, mode, db, w, registry>>

\* select_rules of the turn
SelectRules ==
    /\ call.op = "observe"
    /\ call' = [op |-> "select_rules", user_message |-> call.user_message,
                previous_allow_nsfw |-> call.previous_allow_nsfw,
                result |-> select_rules(RULES(registry), ustate, call.user_message)]
    /\ UNCHANGED <<chat_logs, ustate, obs, outages, story, mode, db, w, registry>>

NextRules ==
    \/ \E m \in RulesMessages, o \in RulesAnswers :
          \E j \in check_consent(m) : Observe(m, o, j)
    \/ SelectRules

SpecRules == InitRules /\ [][NextRules]_vars

----------------------------------------------------------------------------
(* Validation of a candidate text against the rules selected in the turn *)

Texts ==
    {Text({}, {"name"}),
     Text({"no_meta", "be_brief"}, {}),
     Text({"max_length", "be_brief", "ehehe_interval"}, {"name"}),
     Text({"no_meta", "max_length"}, {"name"}),
     Text({"soothe", "stay_in_character"}, {})}

SemanticAnswers ==
    {[ok |-> FALSE, violations |-> <<>>],
     [ok |-> TRUE, violations |-> <<>>],
     [ok |-> TRUE, violations |-> <<"no_parrot">>],
     [ok |-> TRUE, violations |-> <<"soothe", "be_brief", "no_meta", "ghost">>]}

InitValidate ==
    /\ registry \in {"behavior_rules", "missing"}
    /\ story = "idol_story"
    /\ ustate = NewUserState
    /\ call = [op |-> "new", previous_allow_nsfw |-> FALSE]
    /\ obs = NoObs
    /\ outages = 0
    /\ mode = "graph"
    /\ db = <<>>
    /\ w = <<>>
    /\ chat_logs = <<>>

\* validate of the turn, on the rules select_rules returned
Validate(text, answer) ==
    /\ call.op = "select_rules"
    /\ ~call.result.raised
    /\ call' = [op |-> "validate", user_message |-> call.user_message,
                previous_allow_nsfw |-> call.result.allow_nsfw,
                selected_rules |-> call.result,
                text |-> text, answer |-> answer,
                result |-> validate(text, call.result, answer)]
    /\ UNCHANGED <<chat_logs, ustate, obs, outages, story, mode, db, w, registry>>

ValidateMessages == {"hello", "baka"}
ValidateAnswers == {Outage, Answer(EmotionHigh, EmptyVars, NoInstruction)}

NextValidate ==
    \/ \E m \in ValidateMessages, o \in ValidateAnswers :
          \E j \in check_consent(m) : Observe(m, o, j)
    \/ SelectRules
    \/ \E text \in Texts, answer \in SemanticAnswers : Validate(text, answer)

SpecValidate == InitValidate /\ [][NextValidate]_vars

\* validation on the catalog of blocking rules
InitSeverity ==
    /\ registry = "blocking_rules"
    /\ story = "idol_story"
    /\ ustate = NewUserState
    /\ call = [op |-> "new", previous_allow_nsfw |-> FALSE]
    /\ obs = NoObs
    /\ outages = 0
    /\ mode = "graph"
    /\ db = <<>>
    /\ w = <<>>
    /\ chat_logs = <<>>

SpecSeverity == InitSeverity /\ [][NextValidate]_vars

----------------------------------------------------------------------------
(* EmotionState.decay called on its own, with any rate (in hundredths) *)

DecayRates == {10, 50, 100, 1000, 2000, 3000}
DecayPleasures == {0 - 10 * Scale, 0 - 1, 0, 1, 550, 10 * Scale}
DecayArousals == {0 - 3 * Scale, 10 * Scale}
DecayDominances == {0 - 10 * Scale, 0, 10 * Scale}

InitDecay ==
    /\ \E p \in DecayPleasures, a \in DecayArousals, d \in DecayDominances :
          ustate = [NewUserState EXCEPT
                       !.emotion = [pleasure |-> p, arousal |-> a, dominance |-> d]]
    /\ call = [op |-> "new", n |-> 0]
    /\ registry = "missing"
    /\ obs = NoObs
    /\ outages = 0
    /\ story = "missing"
    /\ mode = "legacy"
    /\ db = <<>>
    /\ w = <<>>
    /\ chat_logs = <<>>

\* emotion.decay(rate)
Decay(rate) ==
    /\ call.n < MaxDecays
    /\ ustate' = [ustate EXCEPT !.emotion = decay(ustate.emotion, rate)]
    /\ call' = [op |-> "decay", n |-> call.n + 1, rate |-> rate,
                before |-> ustate.emotion]
    /\ UNCHANGED <<chat_logs, obs, outages, story, mode, db, w, registry>>

NextDecay == \E rate \in DecayRates : Decay(rate)

SpecDecay == InitDecay /\ [][NextDecay]_vars

----------------------------------------------------------------------------
(* OutputFixer.fix called on a text and a validation result *)

FixTexts ==
    {<<Ch("a")>>,
     <<Ch("("), Ch("a"), Ch(")"), Ch("a")>>,
     <<Ch("a"), Ch("\n"), Ch("a")>>,
     <<Run("a", 150), Ch("maru"), Run("a", 150)>>,
     <<Ch("*"), Ch("a"), Ch("*"), Run("a", 250)>>}

FixViolations ==
    {RuleViolation("no_meta", "critical", "block"),
     RuleViolation("no_narration", "high", "remove"),
     RuleViolation("max_length", "high", "trim"),
     RuleViolation("ehehe_interval", "high", "rewrite"),
     RuleViolation("no_parrot", "medium", "rewrite")}

\* the violation lists of a validation: no rule is reported twice
ViolationLists ==
    UNION {{vs \in [1..n -> FixViolations] :
               \A j, k \in 1..n : vs[j] = vs[k] => j = k} : n \in 0..MaxViolations}

RewriteAnswers ==
    {ChatRaises,
     ChatReturns(<<>>),
     ChatReturns(<<Ch("b"), Ch("a")>>),
     ChatReturns(<<Ch("\n"), Ch("\""), Ch("b"), Ch(" "), Ch("\""), Ch(" ")>>)}

InitFix ==
    /\ \E text \in FixTexts, vs \in ViolationLists :
          call = [op |-> "new", text |-> text,
                  validation_result |-> ValidationResult(vs)]
    /\ ustate = NewUserState
    /\ registry = "missing"
    /\ obs = NoObs
    /\ outages = 0
    /\ story = "missing"
    /\ mode = "graph"
    /\ db = <<>>
    /\ w = <<>>
    /\ chat_logs = <<>>

\* fixer.fix(original_text, validation_result, user_message)
Fix(answer) ==
    /\ call.op = "new"
    /\ call' = [op |-> "fix", text |-> call.text,
                validation_result |-> call.validation_result,
                answer |-> answer,
                result |-> OutputFixer_fix(call.text, call.validation_result, answer)]
    /\ UNCHANGED <<chat_logs, ustate, obs, outages, story, mode, db, w, registry>>

NextFix == \E answer \in RewriteAnswers : Fix(answer)

SpecFix == InitFix /\ [][NextFix]_vars

----------------------------------------------------------------------------
(* The deterministic repairs called on a text *)

RepairAlphabet == {"a", " ", "(", ")"}

\* the texts of at most MaxLen characters, and longer ones
RepairTexts ==
    UNION {[1..n -> {Ch(c) : c \in RepairAlphabet}] : n \in 0..MaxLen}
    \cup {<<Run("a", 200)>>,
          <<Run("a", 250)>>,
          <<Run("a", 150), Ch("maru"), Run("a", 150)>>,
          <<Run("a", 201), Ch("fullwidth_!")>>,
          <<Ch("se"), Ch("i"), Ch("ra"), Ch(":"), Ch(" "), Ch("a")>>,
          <<Ch("a"), Ch("\n"), Ch("a")>>}

RepairViolations ==
    {<<RuleViolation("no_narration", "high", "remove")>>,
     <<RuleViolation("max_length", "high", "trim")>>,
     <<RuleViolation("max_length", "high", "trim"),
       RuleViolation("no_narration", "high", "remove")>>,
     <<RuleViolation("no_narration", "high", "remove"),
       RuleViolation("no_parrot", "medium", "rewrite")>>}

InitRepair ==
    /\ \E text \in RepairTexts, vs \in RepairViolations :
          call = [op |-> "new", text |-> text, violations |-> vs]
    /\ ustate = NewUserState
    /\ registry = "missing"
    /\ obs = NoObs
    /\ outages = 0
    /\ story = "missing"
    /\ mode = "graph"
    /\ db = <<>>
    /\ w = <<>>
    /\ chat_logs = <<>>

\* fixer._apply_remove(text, violation)
ApplyRemove ==
    /\ call.op = "new"
    /\ Head(call.violations).suggested_action = "remove"
    /\ call' = [op |-> "_apply_remove", text |-> call.text,
                violations |-> call.violations,
                result |-> _apply_remove(call.text, Head(call.violations))]
    /\ UNCHANGED <<chat_logs, ustate, obs, outages, story, mode, db, w, registry>>

\* fixer._apply_trim(text, violation)
ApplyTrim ==
    /\ call.op = "new"
    /\ Head(call.violations).suggested_action = "trim"
    /\ call' = [op |-> "_apply_trim", text |-> call.text,
                violations |-> call.violations,
                result |-> _apply_trim(call.text, Head(call.violations))]
    /\ UNCHANGED <<chat_logs, ustate, obs, outages, story, mode, db, w, registry>>

\* fixer.fix_quick(text, violations)
FixQuick ==
    /\ call.op = "new"
    /\ call' = [op |-> "fix_quick", text |-> call.text,
                violations |-> call.violations,
                result |-> fix_quick(call.text, call.violations)]
    /\ UNCHANGED <<chat_logs, ustate, obs, outages, story, mode, db, w, registry>>

NextRepair ==
    \/ ApplyRemove
    \/ ApplyTrim
    \/ FixQuick

SpecRepair == InitRepair /\ [][NextRepair]_vars

----------------------------------------------------------------------------
(* actor.generate_reply called on what the generation service answers *)

\* LLMClient.chat past the dry run: response is what the completion
\* request gives, an exception or the content of the first choice
chat(response) ==
    IF response.raises \/ response.text = <<>> THEN ChatRaises
    ELSE ChatReturns(response.text)

\* _generate_reply_llm: the reply, or None (raises) when chat raised
_generate_reply_llm(response) == chat(response)

ReplyRaised == [raised |-> TRUE, reply |-> <<>>]
Reply(text) == [raised |-> FALSE, reply |-> text]

\* generate_reply; has: llm_client.has(provider)
generate_reply(has, response) ==
    IF ~has THEN ReplyRaised
    ELSE LET reply == _generate_reply_llm(response)
         IN  IF reply.raises \/ reply.text = <<>> THEN ReplyRaised
             ELSE Reply(strip(reply.text, WHITESPACE))

ReplyAlphabet == {"a", " ", "\n"}

Responses ==
    {ChatRaises} \cup
    {ChatReturns(text) :
        text \in UNION {[1..n -> {Ch(c) : c \in ReplyAlphabet}] : n \in 0..MaxLen}}

InitActor ==
    /\ \E has \in BOOLEAN, response \in Responses :
          call = [op |-> "new", has |-> has, response |-> response]
    /\ ustate = NewUserState
    /\ registry = "missing"
    /\ obs = NoObs
    /\ outages = 0
    /\ story = "missing"
    /\ mode = "legacy"
    /\ db = <<>>
    /\ w = <<>>
    /\ chat_logs = <<>>

GenerateReply ==
    /\ call.op = "new"
    /\ call' = [op |-> "generate_reply", has |-> call.has, response |-> call.response,
                result |-> generate_reply(call.has, call.response)]
    /\ UNCHANGED <<chat_logs, ustate, obs, outages, story, mode, db, w, registry>>

NextActor == GenerateReply

SpecActor == InitActor /\ [][NextActor]_vars

----------------------------------------------------------------------------
(* The turn pipeline: orchestrator._process_chat_turn_legacy and the nodes   *)
(* of graph/dialogue_graph.py, run by concurrent request workers on the      *)
(* user_states table.  A text is named by the call that produced it.         *)

Users == {"u1"}
Workers == {"w1", "w2"}

max_retries == 2

NoRow == [row |-> FALSE, state |-> NewUserState]
Row(state) == [row |-> TRUE, state |-> state]

NoText == [src |-> "none", n |-> 0]          \* the empty string
GenText(n) == [src |-> "generate", n |-> n]   \* reply of the n-th generate call
FixText(n) == [src |-> "fix", n |-> n]        \* text repaired from that reply

\* ValidationResult: the suggested actions of its violations (None: no result)
NoValidation == [present |-> FALSE, is_valid |-> FALSE, actions |-> {}]
Validation(actions) == [present |-> TRUE, is_valid |-> actions = {}, actions |-> actions]

\* what validate can find in a candidate
ValidationOutcomes == {{}, {"REWRITE"}, {"REMOVE"}, {"BLOCK"}, {"REWRITE", "BLOCK"}}

\* (is_ok, feedback) of check_reply; before the first check: none
NoVerdict == [is_ok |-> TRUE, feedback |-> <<>>]
NoAnswer == [kind |-> "none", data |-> <<>>]

\* the local variables of a worker that serves no request.  history: the
\* exchanges loaded; given: the instruction_override handed to the last
\* generate_reply call; critic: the last verdict of the Critic; candidates:
\* the replies generate_reply has returned in the turn; answered: the last
\* answer of the Critic service; after_reset: the
\* worker served a reset of the same user right before this turn; rounds,
\* resets: the turns and the resets the worker has served
Idle ==
    [pc |-> "idle", user_id |-> "u1", user_message |-> "",
     loaded |-> NoRow,
     user_state |-> NewUserState, instruction_override |-> NoInstruction,
     selected_rules |-> FALSE, draft_reply |-> NoText, final_reply |-> NoText,
     validation_result |-> NoValidation,
     retry_count |-> 0, errors |-> {},
     gens |-> 0, saves |-> 0, rounds |-> 0, triggered |-> FALSE,
     history |-> 0, given |-> NoInstruction, critic |-> NoVerdict,
     candidates |-> 0, after_reset |-> FALSE, resets |-> 0,
     answered |-> NoAnswer]

InitTurn ==
    /\ mode \in {"legacy", "graph"}
    /\ story = "idol_story"
    /\ db = [u \in Users |-> NoRow]
    /\ chat_logs = [u \in Users |-> 0]
    /\ w = [i \in Workers |-> Idle]
    /\ ustate = NewUserState
    /\ obs = NoObs
    /\ outages = 0
    /\ call = NoCall
    /\ registry = "behavior_rules"

\* a request arrives: process_chat_turn(user_id, user_message)
process_chat_turn(i, u, m) ==
    /\ w[i].pc \in {"idle", "done", "failed", "reset_done"}
    /\ w[i].rounds < MaxRounds
    /\ w' = [w EXCEPT ![i] = [Idle EXCEPT !.pc = "load_state", !.user_id = u,
                                          !.user_message = m,
                                          !.rounds = w[i].rounds + 1,
                                          !.resets = w[i].resets,
                                          !.after_reset = /\ w[i].pc = "reset_done"
                                                          /\ w[i].user_id = u]]
    /\ UNCHANGED <<chat_logs, call, registry, db, mode, story, ustate, obs, outages>>

\* fetch_state, or a new state when the user has no row, and the stored
\* history (node_load_state; _process_chat_turn_legacy lines 65-73)
node_load_state(i) ==
    /\ w[i].pc = "load_state"
    /\ w' = [w EXCEPT ![i].loaded = db[w[i].user_id],
                      ![i].history = chat_logs[w[i].user_id],
                      ![i].user_state = IF db[w[i].user_id].row
                                        THEN db[w[i].user_id].state
                                        ELSE NewUserState,
                      ![i].pc = "observe"]
    /\ UNCHANGED <<chat_logs, call, registry, db, mode, story, ustate, obs, outages>>

\* observe, then storage.update_state (node_observe;
\* _process_chat_turn_legacy lines 80-82).  err: the node raises before the
\* state is written; the graph node catches it, the legacy turn fails.
node_observe(i, o, j, err) ==
    /\ w[i].pc = "observe"
    /\ LET r == update_state(SCENARIO_DATA(story), w[i].user_message,
                             w[i].user_state, o, j)
       IN  IF err
           THEN /\ w' = [w EXCEPT ![i].errors = @ \cup {"Observer error"},
                                  ![i].pc = IF mode = "graph" THEN "retrieve_memory"
                                            ELSE "failed"]
                /\ db' = db
           ELSE /\ w' = [w EXCEPT ![i].user_state = r.updated_state,
                                  ![i].instruction_override = r.instruction_override,
                                  ![i].triggered = r.triggered,
                                  ![i].saves = @ + 1,
                                  ![i].pc = IF mode = "graph" THEN "retrieve_memory"
                                            ELSE "generate"]
                /\ db' = [db EXCEPT ![w[i].user_id] = Row(r.updated_state)]
    /\ UNCHANGED <<chat_logs, call, registry, mode, story, ustate, obs, outages>>

node_retrieve_memory(i, err) ==
    /\ w[i].pc = "retrieve_memory"
    /\ w' = [w EXCEPT ![i].errors = IF err THEN @ \cup {"Memory error"} ELSE @,
                      ![i].pc = "select_rules"]
    /\ UNCHANGED <<chat_logs, call, registry, db, mode, story, ustate, obs, outages>>

node_select_rules(i, err) ==
    /\ w[i].pc = "select_rules"
    /\ w' = [w EXCEPT ![i].errors = IF err THEN @ \cup {"RuleSelector error"} ELSE @,
                      ![i].selected_rules = ~err,
                      ![i].pc = "generate"]
    /\ UNCHANGED <<chat_logs, call, registry, db, mode, story, ustate, obs, outages>>

\* the hints of the selected conditional rules node_generate appends to
\* the instruction
RuleHints(selected_rules) == IF selected_rules THEN <<"RULE_HINTS">> ELSE <<>>

\* ValidationResult.get_fix_instructions of a validation result of the turn
get_fix_instructions(validation_result) ==
    IF validation_result.present /\ ~validation_result.is_valid
    THEN <<"fix_instruction">> ELSE <<>>

\* generate_reply inside node_generate; ok = FALSE: generate_reply raises
node_generate(i, ok) ==
    /\ mode = "graph"
    /\ w[i].pc = "generate"
    /\ w' = [w EXCEPT ![i].gens = @ + 1,
                      ![i].given = w[i].instruction_override
                                      \o RuleHints(w[i].selected_rules),
                      ![i].candidates = IF ok THEN @ + 1 ELSE @,
                      ![i].draft_reply = IF ok THEN GenText(w[i].gens + 1) ELSE NoText,
                      ![i].errors = IF ok THEN @ ELSE @ \cup {"Actor error"},
                      ![i].pc = "validate"]
    /\ UNCHANGED <<chat_logs, call, registry, db, mode, story, ustate, obs, outages>>

\* should_retry without the test of is_valid
should_retry_until_limit(state) ==
    IF ~state.validation_result.present THEN "save"
    ELSE IF state.retry_count >= max_retries THEN "save"
    ELSE "fix"

\* should_retry with `retry_count > max_retries` for `>=`
should_retry_late(state) ==
    IF ~state.validation_result.present THEN "save"
    ELSE IF state.validation_result.is_valid THEN "save"
    ELSE IF state.retry_count > max_retries THEN "save"
    ELSE "fix"

should_retry(state) ==
    IF ~state.validation_result.present THEN "save"
    ELSE IF state.validation_result.is_valid THEN "save"
    ELSE IF state.retry_count >= max_retries THEN "save"
    ELSE "fix"

\* node_validate followed by the conditional edge should_retry;
\* err: validate raises
node_validate(i, found, err) ==
    /\ w[i].pc = "validate"
    /\ LET result == IF ~w[i].selected_rules \/ err THEN NoValidation
                     ELSE Validation(found)
           after == [w[i] EXCEPT !.validation_result = result,
                                 !.errors = IF w[i].selected_rules /\ err
                                            THEN @ \cup {"Validator error"} ELSE @]
       IN  w' = [w EXCEPT ![i] = [after EXCEPT !.pc = should_retry(after)]]
    /\ UNCHANGED <<chat_logs, call, registry, db, mode, story, ustate, obs, outages>>

\* OutputFixer.fix: fails as a whole when a violation asks for BLOCK
fix(original_text, validation_result) ==
    IF validation_result.is_valid
    THEN [success |-> TRUE, fixed_text |-> original_text]
    ELSE IF "BLOCK" \in validation_result.actions
    THEN [success |-> FALSE, fixed_text |-> NoText]
    ELSE [success |-> TRUE, fixed_text |-> FixText(original_text.n)]

\* node_fix in a graph whose edge leads from fix back to validate
node_fix_then_validate(i, err) ==
    /\ w[i].pc = "fix"
    /\ LET fix_result == fix(w[i].draft_reply, w[i].validation_result)
       IN  w' = [w EXCEPT
                 ![i].retry_count = @ + 1,
                 ![i].draft_reply =
                     IF w[i].validation_result.present /\ ~err /\ fix_result.success
                     THEN fix_result.fixed_text ELSE @,
                 ![i].errors =
                     IF ~w[i].validation_result.present THEN @
                     ELSE IF err THEN @ \cup {"Fixer error"}
                     ELSE IF ~fix_result.success THEN @ \cup {"Fix failed: blocked content"}
                     ELSE @,
                 ![i].pc = "validate"]
    /\ UNCHANGED <<chat_logs, call, registry, db, mode, story, ustate, obs, outages>>

\* node_fix, then the edge fix -> generate; err: fix raises
node_fix(i, err) ==
    /\ w[i].pc = "fix"
    /\ LET fix_result == fix(w[i].draft_reply, w[i].validation_result)
       IN  w' = [w EXCEPT
                 ![i].retry_count = @ + 1,
                 ![i].draft_reply =
                     IF w[i].validation_result.present /\ ~err /\ fix_result.success
                     THEN fix_result.fixed_text ELSE @,
                 ![i].errors =
                     IF ~w[i].validation_result.present THEN @
                     ELSE IF err THEN @ \cup {"Fixer error"}
                     ELSE IF ~fix_result.success THEN @ \cup {"Fix failed: blocked content"}
                     ELSE @,
                 ![i].pc = "generate"]
    /\ UNCHANGED <<chat_logs, call, registry, db, mode, story, ustate, obs, outages>>

\* node_save, then END: run_dialogue_graph returns final_reply
node_save(i) ==
    /\ w[i].pc = "save"
    /\ w' = [w EXCEPT ![i].final_reply = w[i].draft_reply, ![i].pc = "done"]
    /\ chat_logs' = [chat_logs EXCEPT ![w[i].user_id] = @ + 1]
    /\ UNCHANGED <<call, registry, db, mode, story, ustate, obs, outages>>

\* answers of the Critic service to check_reply: the call raises, or it
\* returns a text that json.loads rejects, or a JSON object
CriticRaises == [kind |-> "raises", data |-> <<>>]
CriticText == [kind |-> "text", data |-> <<>>]
CriticJson(data) == [kind |-> "json", data |-> data]

Accepting == CriticJson([is_ok |-> TRUE, feedback |-> <<>>])

CriticOutcomes ==
    {CriticRaises, CriticText, Accepting,
     CriticJson([is_ok |-> FALSE, feedback |-> <<"feedback">>]),
     CriticJson(<<>>)}

\* check_reply that rejects the draft when the Critic gives no verdict
check_reply_fail_closed(answer) ==
    IF answer.kind # "json"
    THEN [is_ok |-> FALSE, feedback |-> <<>>]
    ELSE [is_ok |-> Get(answer.data, "is_ok", FALSE),
          feedback |-> Get(answer.data, "feedback", <<>>)]

\* check_reply: (is_ok, feedback) of the answer; any exception of the call
\* or of the parse is reported as (True, "")
check_reply(answer) ==
    IF answer.kind # "json"
    THEN [is_ok |-> TRUE, feedback |-> <<>>]
    ELSE [is_ok |-> Get(answer.data, "is_ok", FALSE),
          feedback |-> Get(answer.data, "feedback", <<>>)]

\* the loop that returns no reply when the last attempt is rejected
legacy_attempt_no_fallback(i, ok, c) ==
    /\ mode = "legacy"
    /\ w[i].pc = "generate"
    /\ LET reply == GenText(w[i].gens + 1)
           called == [w[i] EXCEPT !.gens = @ + 1,
                                  !.given = w[i].instruction_override]
           verdict == check_reply(c)
           checked == [called EXCEPT !.draft_reply = reply, !.candidates = @ + 1,
                                     !.critic = verdict, !.answered = c]
       IN  w' = [w EXCEPT ![i] =
                IF ~ok THEN [called EXCEPT !.pc = "failed"]
                ELSE IF verdict.is_ok
                THEN [checked EXCEPT !.final_reply = reply, !.pc = "finish"]
                ELSE IF w[i].retry_count = max_retries
                THEN [checked EXCEPT
                               !.instruction_override = @ \o <<"FIX">> \o verdict.feedback,
                               !.pc = "finish"]
                ELSE [checked EXCEPT
                               !.instruction_override = @ \o <<"FIX">> \o verdict.feedback,
                               !.retry_count = @ + 1]]
    /\ UNCHANGED <<chat_logs, call, registry, db, mode, story, ustate, obs, outages>>

\* one iteration of the Actor/Critic loop of _process_chat_turn_legacy
\* (retry_count is the loop variable attempt, instruction_override is
\* current_instruction); ok = FALSE: generate_reply raises and the turn
\* fails; c: the answer of the Critic service to check_reply
legacy_attempt(i, ok, c) ==
    /\ mode = "legacy"
    /\ w[i].pc = "generate"
    /\ LET reply == GenText(w[i].gens + 1)
           called == [w[i] EXCEPT !.gens = @ + 1,
                                  !.given = w[i].instruction_override]
           verdict == check_reply(c)
           checked == [called EXCEPT !.draft_reply = reply, !.candidates = @ + 1,
                                     !.critic = verdict, !.answered = c]
       IN  w' = [w EXCEPT ![i] =
                IF ~ok THEN [called EXCEPT !.pc = "failed"]
                ELSE IF verdict.is_ok
                THEN [checked EXCEPT !.final_reply = reply, !.pc = "finish"]
                ELSE IF w[i].retry_count = max_retries
                THEN [checked EXCEPT
                               !.instruction_override = @ \o <<"FIX">> \o verdict.feedback,
                               !.final_reply = reply, !.pc = "finish"]
                ELSE [checked EXCEPT
                               !.instruction_override = @ \o <<"FIX">> \o verdict.feedback,
                               !.retry_count = @ + 1]]
    /\ UNCHANGED <<chat_logs, call, registry, db, mode, story, ustate, obs, outages>>

\* the rest of _process_chat_turn_legacy: memory bookkeeping and return
legacy_finish(i) ==
    /\ w[i].pc = "finish"
    /\ w' = [w EXCEPT ![i].pc = "done"]
    /\ chat_logs' = [chat_logs EXCEPT ![w[i].user_id] = @ + 1]
    /\ UNCHANGED <<call, registry, db, mode, story, ustate, obs, outages>>

\* a reset request arrives: reset_session(user_id)
process_reset(i, u) ==
    /\ w[i].pc \in {"idle", "done", "failed", "reset_done"}
    /\ w[i].resets < MaxResets
    /\ w' = [w EXCEPT ![i] = [Idle EXCEPT !.pc = "reset", !.user_id = u,
                                          !.rounds = w[i].rounds,
                                          !.resets = w[i].resets + 1]]
    /\ UNCHANGED <<chat_logs, call, registry, db, mode, story, ustate, obs, outages>>

\* reset_session whose DELETE statements have no WHERE clause
reset_session_all_users(i) ==
    /\ w[i].pc = "reset"
    /\ chat_logs' = [u \in DOMAIN chat_logs |-> 0]
    /\ db' = [u \in DOMAIN db |-> NoRow]
    /\ w' = [w EXCEPT ![i].pc = "reset_done"]
    /\ UNCHANGED <<call, registry, mode, story, ustate, obs, outages>>

\* reset_session that deletes the state of the user and keeps the history
reset_session_keep_history(i) ==
    /\ w[i].pc = "reset"
    /\ db' = [db EXCEPT ![w[i].user_id] = NoRow]
    /\ w' = [w EXCEPT ![i].pc = "reset_done"]
    /\ UNCHANGED <<chat_logs, call, registry, mode, story, ustate, obs, outages>>

\* reset_session: memory.clear_all(), then storage.reset_user deletes the
\* rows of the user in user_states and in chat_logs
reset_session(i) ==
    /\ w[i].pc = "reset"
    /\ chat_logs' = [chat_logs EXCEPT ![w[i].user_id] = 0]
    /\ db' = [db EXCEPT ![w[i].user_id] = NoRow]
    /\ w' = [w EXCEPT ![i].pc = "reset_done"]
    /\ UNCHANGED <<call, registry, mode, story, ustate, obs, outages>>

\* inputs of the pipeline model
TurnMessages == {"ikou", "kirai"}
TurnAnswers == {Outage, Answer(EmotionHigh, EmptyVars, <<"be_happy">>)}

\* the steps worker i can take; errs: whether a node may raise
Step(i, errs) ==
    \/ \E u \in Users, m \in TurnMessages : process_chat_turn(i, u, m)
    \/ node_load_state(i)
    \/ \E o \in TurnAnswers, err \in errs :
          \E j \in check_consent(w[i].user_message) : node_observe(i, o, j, err)
    \/ \E err \in errs : node_retrieve_memory(i, err)
    \/ \E err \in errs : node_select_rules(i, err)
    \/ \E ok \in BOOLEAN : node_generate(i, ok)
    \/ \E found \in ValidationOutcomes, err \in errs : node_validate(i, found, err)
    \/ \E err \in errs : node_fix(i, err)
    \/ node_save(i)
    \/ \E ok \in BOOLEAN, c \in CriticOutcomes : legacy_attempt(i, ok, c)
    \/ legacy_finish(i)

\* one request worker, which serves chat turns and resets
NextTurn ==
    \/ Step("w1", BOOLEAN)
    \/ \E u \in Users : process_reset("w1", u)
    \/ reset_session("w1")

SpecTurn == InitTurn /\ [][NextTurn]_vars

\* the worker that serves a request runs on until the request ends
SpecTurnLive == SpecTurn /\ WF_vars(NextTurn)

\* concurrent request workers, served by a generation service that answers
\* and candidates that pass validation
ConcStep(i) ==
    \/ \E u \in Users, m \in TurnMessages : process_chat_turn(i, u, m)
    \/ node_load_state(i)
    \/ \E o \in TurnAnswers :
          \E j \in check_consent(w[i].user_message) : node_observe(i, o, j, FALSE)
    \/ node_retrieve_memory(i, FALSE)
    \/ node_select_rules(i, FALSE)
    \/ node_generate(i, TRUE)
    \/ node_validate(i, {}, FALSE)
    \/ node_save(i)
    \/ legacy_attempt(i, TRUE, Accepting)
    \/ legacy_finish(i)

NextConc == \E i \in Workers : ConcStep(i)

SpecConc == InitTurn /\ [][NextConc]_vars

\* two users, each with a request worker of their own: the chat turns and
\* the resets of the two users in any interleaving, with an Observer that
\* falls back to the keyword rules and candidates that pass validation
UserIds == {"u1", "u2"}
Serves == [w1 |-> "u1", w2 |-> "u2"]

InitUsers ==
    /\ mode \in {"legacy", "graph"}
    /\ story = "idol_story"
    /\ db = [u \in UserIds |-> NoRow]
    /\ chat_logs = [u \in UserIds |-> 0]
    /\ w = [i \in Workers |-> Idle]
    /\ ustate = NewUserState
    /\ obs = NoObs
    /\ outages = 0
    /\ call = NoCall
    /\ registry = "behavior_rules"

UsersStep(i) ==
    \/ \E m \in TurnMessages : process_chat_turn(i, Serves[i], m)
    \/ node_load_state(i)
    \/ \E j \in check_consent(w[i].user_message) : node_observe(i, Outage, j, FALSE)
    \/ node_retrieve_memory(i, FALSE)
    \/ node_select_rules(i, FALSE)
    \/ node_generate(i, TRUE)
    \/ node_validate(i, {}, FALSE)
    \/ node_save(i)
    \/ legacy_attempt(i, TRUE, Accepting)
    \/ legacy_finish(i)
    \/ process_reset(i, Serves[i])
    \/ reset_session(i)

NextUsers == \E i \in Workers : UsersStep(i)

SpecUsers == InitUsers /\ [][NextUsers]_vars

----------------------------------------------------------------------------
(* Properties of the phase transition engine (SpecObserver) *)

Phases == SCENARIO_DATA(story)
Awaiting(scenario) == Get(scenario.variables, "awaiting_consent", FALSE)
Consented(scenario) == Get(scenario.variables, "consent_for_next_phase", FALSE)
Called == obs.source # "none"

\* a consent judgment affirmed with confidence >= 0.6
Affirmed(j) == j.consent /\ j.confidence >= 60

\* the trigger condition requires consent and, besides, only turn counts
TurnGated(cond) ==
    /\ \E k \in 1..Len(cond) : cond[k].op = "consent"
    /\ \E k \in 1..Len(cond) : cond[k].op = "turn_ge"
    /\ \A k \in 1..Len(cond) : cond[k].op \in {"consent", "turn_ge"}

\* the turn-count part of the condition holds for this count
TurnPart(cond, n) == \A k \in 1..Len(cond) : cond[k].op = "turn_ge" => n >= cond[k].n

\* the last call checked a turn-gated phase whose turn-count part held
AtThreshold ==
    /\ Called
    /\ obs.entry.current_phase \in DOMAIN Phases
    /\ Phases[obs.entry.current_phase].next_phase # ""
    /\ TurnGated(Phases[obs.entry.current_phase].trigger_condition)
    /\ TurnPart(Phases[obs.entry.current_phase].trigger_condition,
                obs.entry.turn_count_in_phase)

\* C1: in a phase whose trigger needs consent and a turn count, a call that
\* finds the count reached with no consent given and none pending ends with
\* awaiting_consent set, a proposal instruction returned and the phase
\* unchanged; a call whose consent judgment is affirmed with confidence
\* >= 0.6 while the count still holds advances the phase to next_phase.
C1_ProposeThenConfirm ==
    AtThreshold =>
        /\ (~Awaiting(obs.entry) /\ ~Consented(obs.entry)) =>
              /\ Awaiting(ustate.scenario)
              /\ obs.proposal # NoInstruction
              /\ \E k \in 1..Len(obs.instruction_override) :
                    obs.instruction_override[k] = "PROPOSE TRANSITION"
              /\ ~obs.triggered
              /\ ustate.scenario.current_phase = obs.entry.current_phase
        /\ (obs.judged /\ Affirmed(obs.judgment)) =>
              /\ obs.triggered
              /\ ustate.scenario.current_phase =
                    Phases[obs.entry.current_phase].next_phase

\* a proposal was made, and the next call confirmed it and advanced the phase
C1_Witness ==
    /\ AtThreshold
    /\ obs.after_proposal
    /\ obs.judged /\ Affirmed(obs.judgment) /\ obs.judgment.confidence = 60
    /\ ustate.scenario.current_phase = "phase_2_cafe"

\* C2: whenever a call advances current_phase, the resulting state has
\* turn_count_in_phase 0, both consent flags false and the first declared
\* scene of the new phase as current_scene.
C2_TransitionResets ==
    (Called /\ ustate.scenario.current_phase # obs.entry.current_phase) =>
        /\ ustate.scenario.turn_count_in_phase = 0
        /\ "awaiting_consent" \in DOMAIN ustate.scenario.variables
        /\ ~Awaiting(ustate.scenario)
        /\ "consent_for_next_phase" \in DOMAIN ustate.scenario.variables
        /\ ~Consented(ustate.scenario)
        /\ ustate.scenario.current_phase \in DOMAIN Phases
        /\ ustate.scenario.current_scene =
              Head(Phases[ustate.scenario.current_phase].scenes)

\* a transition out of a phase entered with a pending, confirmed proposal
\* into a phase whose first scene differs from the scene left
C2_Witness ==
    /\ Called
    /\ ustate.scenario.current_phase = "phase_3_lesson"
    /\ obs.entry.current_phase = "phase_2_cafe"
    /\ Awaiting(obs.entry)
    /\ obs.entry.turn_count_in_phase > 0
    /\ ustate.scenario.current_scene = "scene_studio"

\* C7: consent_for_next_phase becomes true only by a consent judgment
\* affirmed with confidence >= 0.6 in a call that began with
\* awaiting_consent true.
C7_ConsentOnlyByJudgment ==
    [][(~Consented(ustate.scenario) /\ Consented(ustate'.scenario)) =>
          (Awaiting(ustate.scenario) /\ obs'.judged /\ Affirmed(obs'.judgment))]_vars

\* C8: a call that begins with awaiting_consent true and whose consent
\* judgment is not affirmed with confidence >= 0.6 leaves
\* consent_for_next_phase false.
C8_RefusalLeavesNoConsent ==
    [][(Awaiting(ustate.scenario) /\ obs'.judged /\ ~Affirmed(obs'.judgment)) =>
          ~Consented(ustate'.scenario)]_vars

\* C9: a call that begins with awaiting_consent true and receives a
\* judgment that is not affirmed ends with awaiting_consent false and
\* returns no proposal instruction.
C9_RefusalReturnsToActive ==
    [][(Awaiting(ustate.scenario) /\ obs'.judged /\ ~Affirmed(obs'.judgment)) =>
          (~Awaiting(ustate'.scenario) /\ obs'.proposal = NoInstruction)]_vars

\* the phase has no definition, no next_phase or no trigger_condition
Terminal(phase) ==
    \/ phase \notin DOMAIN Phases
    \/ Phases[phase].next_phase = ""
    \/ Phases[phase].trigger_condition = <<>>

\* C10: in a terminal phase the trigger check leaves phase, scene and the
\* variables (the consent flags among them) as they were handed to it, asks
\* for no consent judgment and returns no proposal and no transition.
C10_TerminalPhaseInert ==
    (Called /\ Terminal(obs.entry.current_phase)) =>
        /\ ustate.scenario = obs.entry
        /\ ~obs.judged
        /\ ~obs.triggered
        /\ obs.proposal = NoInstruction
        /\ obs.instruction_override \in {NoInstruction, <<"be_happy">>}

\* a call in a phase that names a next phase but no trigger condition, with
\* a consent pending and a message that a judgment could be asked about
C10_Witness ==
    /\ Called
    /\ obs.entry.current_phase = "phase_2_live"
    /\ Awaiting(obs.entry)
    /\ obs.user_message # ""

\* C11 as stated: every call increments turn_count_in_phase once, after the
\* transition bookkeeping of the call, so a call that advances the phase
\* ends with the count 1 and any other call with the count it found plus 1.
C11_IncrementAfterTransition ==
    [][ustate'.scenario.turn_count_in_phase =
          (IF obs'.triggered THEN 0 ELSE ustate.scenario.turn_count_in_phase) + 1]_vars

\* C11 amended: every call, on the LLM path and on the rule-based fallback
\* path alike, increments turn_count_in_phase exactly once before the
\* transition check, which sees the incremented count; a call that advances
\* the phase ends with the count 0, any other call with the incremented count.
C11_IncrementBeforeTransition ==
    [][/\ obs'.entry.turn_count_in_phase = ustate.scenario.turn_count_in_phase + 1
       /\ ustate'.scenario.turn_count_in_phase =
             IF obs'.triggered THEN 0 ELSE ustate.scenario.turn_count_in_phase + 1]_vars

\* a call on the fallback path that advanced the phase after earlier turns
C11_Witness ==
    /\ Called
    /\ obs.source = "rules_fallback"
    /\ obs.triggered
    /\ obs.entry.turn_count_in_phase > 1
    /\ ustate.scenario.turn_count_in_phase = 0

InRange(x) == AffectMin <= x /\ x <= AffectMax

\* C12: after every update_state call, on the LLM path and on the keyword
\* fallback, pleasure, arousal and dominance of the resulting state lie in
\* [-10, 10], whatever the Observer service supplied and whatever the
\* keywords added up to.
C12_AffectInRange ==
    Called =>
        /\ InRange(ustate.emotion.pleasure)
        /\ InRange(ustate.emotion.arousal)
        /\ InRange(ustate.emotion.dominance)

\* a keyword fallback call whose deltas pushed pleasure and dominance below
\* -10 from the values an out-of-range service answer had left
C12_Witness ==
    /\ Called
    /\ obs.source = "rules_fallback"
    /\ obs.user_message = "kirai"
    /\ ustate.emotion.dominance = AffectMin
    /\ ustate.emotion.pleasure = (0 - 99 * Scale) \div 10

----------------------------------------------------------------------------
(* Properties of EmotionState.decay (SpecDecay) *)

Abs(x) == IF x < 0 THEN 0 - x ELSE x

\* C13: decay(rate) leaves dominance unchanged and, for every rate > 0,
\* strictly reduces the absolute value of a nonzero pleasure and of a nonzero
\* arousal.
C13_DecayReduces ==
    (call.op = "decay" /\ call.rate > 0) =>
        /\ ustate.emotion.dominance = call.before.dominance
        /\ call.before.pleasure # 0 =>
              Abs(ustate.emotion.pleasure) < Abs(call.before.pleasure)
        /\ call.before.arousal # 0 =>
              Abs(ustate.emotion.arousal) < Abs(call.before.arousal)

----------------------------------------------------------------------------
(* Properties of rule selection (SpecRules) *)

Catalog == RULES(registry)
Selecting == call.op = "select_rules"
Returned == Selecting /\ ~call.result.raised
Ids(rules) == {rules[k].id : k \in 1..Len(rules)}

NumericKeys == {"turn_count_in_phase", "pleasure", "arousal", "dominance"}
OtherKeys == {"current_scene", "current_phase", "context_keywords", "emotion",
              "variables"}
Operators == {"$in", "$lte", "$gte", "$lt", "$gt", "$eq"}

Actual(key, state) ==
    CASE key = "turn_count_in_phase" -> state.scenario.turn_count_in_phase
      [] key = "pleasure" -> state.emotion.pleasure
      [] key = "arousal" -> state.emotion.arousal
      [] OTHER -> state.emotion.dominance

\* the comparison `actual op t` holds (a threshold of the wrong type: no)
Compare(actual, op, t) ==
    CASE op = "$in"  -> t.type = "list" /\ actual \in t.items
      [] op = "$lte" -> t.type = "num" /\ actual <= t.n
      [] op = "$gte" -> t.type = "num" /\ actual >= t.n
      [] op = "$lt"  -> t.type = "num" /\ actual < t.n
      [] op = "$gt"  -> t.type = "num" /\ actual > t.n
      [] OTHER       -> t.type = "num" /\ actual = t.n

\* the condition is true of the state and the utterance: every operator of
\* every numeric variable compared, a key outside the known ones not satisfied
ItemHolds(item, state, user_message) ==
    IF item.key \in NumericKeys
    THEN IF item.value.type = "dict"
         THEN \A op \in DOMAIN item.value.d :
                 Compare(Actual(item.key, state), op, item.value.d[op])
         ELSE item.value.type = "num" /\ item.value.n = Actual(item.key, state)
    ELSE IF item.key \in OtherKeys
         THEN KeyTest(item.key, item.value, state, user_message) = "T"
         ELSE FALSE

Holds(condition, state, user_message) ==
    \A k \in 1..Len(condition) : ItemHolds(condition[k], state, user_message)

\* the condition cannot be evaluated: it names an unknown variable or orders
\* a numeric variable against a threshold that is not a number
Unevaluable(condition) ==
    \E k \in 1..Len(condition) :
        \/ condition[k].key \notin NumericKeys \cup OtherKeys
        \/ /\ condition[k].key \in NumericKeys
           /\ condition[k].value.type = "dict"
           /\ \E op \in DOMAIN condition[k].value.d \ {"$in"} :
                 condition[k].value.d[op].type # "num"

\* C14: every select_rules call returns a selection that holds every
\* mandatory rule of the catalog, whatever the conditions of the advisory and
\* conditional rules evaluate to, an evaluation error included.
C14_MandatoryAlways ==
    Selecting =>
        /\ ~call.result.raised
        /\ call.result.hard_rules = Catalog.hard_rules

\* C15: an advisory rule is selected iff it has no condition or its condition
\* is true of the state and the utterance; a conditional rule is selected iff
\* its condition is true of them.
C15_SelectedIffConditionTrue ==
    Returned =>
        /\ \A k \in 1..Len(Catalog.soft_rules) :
              (Catalog.soft_rules[k].id \in Ids(call.result.soft_rules))
              <=> \/ Catalog.soft_rules[k].condition = <<>>
                  \/ Holds(Catalog.soft_rules[k].condition, ustate, call.user_message)
        /\ \A k \in 1..Len(Catalog.state_dependent_rules) :
              (Catalog.state_dependent_rules[k].id
                  \in Ids(call.result.state_dependent_rules))
              <=> Holds(Catalog.state_dependent_rules[k].condition, ustate,
                        call.user_message)

\* C16: allow_nsfw of a selection is true iff a selected conditional rule has
\* its allow flag set, whatever the flag of the previous turn was, and a
\* conditional rule whose condition is false is not among those that set it.
C16_AllowFlagFromSelected ==
    Returned =>
        /\ call.result.allow_nsfw <=>
              \E k \in 1..Len(call.result.state_dependent_rules) :
                  call.result.state_dependent_rules[k].allow_nsfw
        /\ \A k \in 1..Len(Catalog.state_dependent_rules) :
              (/\ Catalog.state_dependent_rules[k].allow_nsfw
               /\ ~Holds(Catalog.state_dependent_rules[k].condition, ustate,
                         call.user_message))
              => Catalog.state_dependent_rules[k].id
                    \notin Ids(call.result.state_dependent_rules)

\* C17: a rule whose condition cannot be evaluated is not selected, and the
\* select_rules call that meets it returns.
C17_UnevaluableIsFalse ==
    Selecting =>
        /\ \A k \in 1..Len(Catalog.soft_rules) :
              Unevaluable(Catalog.soft_rules[k].condition) =>
                 /\ ~call.result.raised
                 /\ Catalog.soft_rules[k].id \notin Ids(call.result.soft_rules)
        /\ \A k \in 1..Len(Catalog.state_dependent_rules) :
              Unevaluable(Catalog.state_dependent_rules[k].condition) =>
                 /\ ~call.result.raised
                 /\ Catalog.state_dependent_rules[k].id
                       \notin Ids(call.result.state_dependent_rules)

\* the condition is {key: {op: t}} with a numeric variable, one of the six
\* operators and a threshold of the fitting type
NumericAtom(condition) ==
    /\ Len(condition) = 1
    /\ condition[1].key \in NumericKeys
    /\ condition[1].value.type = "dict"
    /\ \E op \in Operators :
          /\ DOMAIN condition[1].value.d = {op}
          /\ condition[1].value.d[op].type = IF op = "$in" THEN "list" ELSE "num"

\* C18: an advisory rule whose condition is {var: {op: t}}, for every
\* operator of {$in, $lte, $gte, $lt, $gt, $eq} and every numeric variable,
\* is selected iff the comparison of the variable with t holds.
C18_OperatorsHonoured ==
    Returned =>
        \A k \in 1..Len(Catalog.soft_rules) :
            NumericAtom(Catalog.soft_rules[k].condition) =>
                LET item == Catalog.soft_rules[k].condition[1]
                    op == CHOOSE o \in DOMAIN item.value.d : TRUE
                IN  (Catalog.soft_rules[k].id \in Ids(call.result.soft_rules))
                    <=> Compare(Actual(item.key, ustate), op, item.value.d[op])

----------------------------------------------------------------------------
(* Properties of output validation (SpecValidate) *)

Validating == call.op = "validate"

\* the ids of the rules in the SelectedRules handed to validate
SelectedIds ==
    Ids(call.selected_rules.hard_rules) \cup Ids(call.selected_rules.soft_rules)
        \cup Ids(call.selected_rules.state_dependent_rules)

\* the ids of the advisory rules submitted to the semantic check
SubmittedIds ==
    {call.selected_rules.soft_rules[k].id :
        k \in {n \in 1..Len(call.selected_rules.soft_rules) :
                  call.selected_rules.soft_rules[n].check_type = "llm_semantic"}}

\* C19: every violation validate returns carries the id of a rule of the
\* SelectedRules handed to it, and every violation that comes from the
\* semantic check the id of a submitted advisory rule; so needs_fix is never
\* owed to a rule that was not selected.
C19_ViolationsOfSelectedOnly ==
    Validating =>
        /\ \A k \in 1..Len(call.result.violations) :
              /\ call.result.violations[k].rule_id \in SelectedIds
              /\ k > call.result.local =>
                    call.result.violations[k].rule_id \in SubmittedIds
        /\ needs_fix(call.result) =>
              \E k \in 1..Len(call.result.violations) :
                  /\ call.result.violations[k].severity \in {"critical", "high"}
                  /\ call.result.violations[k].rule_id \in SelectedIds

\* a validation of a text that breaks a rule not selected in the turn, with
\* a semantic check that names rules that were not submitted
C19_Witness ==
    /\ Validating
    /\ "be_brief" \in call.text.hits
    /\ "be_brief" \notin SelectedIds
    /\ call.result.llm_calls = 1
    /\ call.answer.ok
    /\ \E k \in 1..Len(call.answer.violations) : call.answer.violations[k] = "ghost"
    /\ \E k \in 1..Len(call.answer.violations) :
          /\ call.answer.violations[k] = "soothe"
          /\ "soothe" \notin SubmittedIds

\* a selected mandatory rule with a standard check and the action block
\* reports a violation of the text
CriticalFound ==
    \E k \in 1..Len(call.selected_rules.hard_rules) :
        /\ call.selected_rules.hard_rules[k].action_on_violation = "block"
        /\ call.selected_rules.hard_rules[k].check_type \in StandardChecks
        /\ call.selected_rules.hard_rules[k].id \in call.text.hits

\* C20: validate calls the semantic check service iff the local checks found
\* no critical violation and a selected advisory rule needs semantic
\* judgment; it calls at most once, when all local checks have been made.
C20_SemanticCheckIffNoCritical ==
    Validating =>
        /\ call.result.llm_calls \in {0, 1}
        /\ call.result.llm_calls = 1 <=> (~CriticalFound /\ SubmittedIds # {})
        /\ call.result.llm_calls = 0 =>
              Len(call.result.violations) = call.result.local
        /\ \A k \in 1..Len(call.result.violations) :
              k > call.result.local => call.result.violations[k].severity = "medium"

\* a validation that found a critical violation and skipped a semantic check
\* that would have reported a violation of a submitted rule
C20_Witness ==
    /\ Validating
    /\ CriticalFound
    /\ "no_parrot" \in SubmittedIds
    /\ call.answer.ok
    /\ call.answer.violations = <<"no_parrot">>
    /\ call.result.llm_calls = 0

\* the severities of the violations validate returned
Severities ==
    {call.result.violations[k].severity : k \in 1..Len(call.result.violations)}

\* C21: in every validation result is_valid is true iff the violation list
\* is empty, needs_fix is true iff some violation is critical or high,
\* has_critical implies needs_fix and needs_fix implies not is_valid.
C21_ResultPredicates ==
    Validating =>
        /\ call.result.is_valid <=> Len(call.result.violations) = 0
        /\ needs_fix(call.result) <=> Severities \cap {"critical", "high"} # {}
        /\ has_critical(call.result) => needs_fix(call.result)
        /\ needs_fix(call.result) => ~call.result.is_valid

\* a result that is not valid and needs no fix: the semantic check found the
\* only violation, which is medium
C21_Witness ==
    /\ Validating
    /\ ~call.result.is_valid
    /\ ~needs_fix(call.result)
    /\ ~has_critical(call.result)
    /\ Severities = {"medium"}

\* the selected mandatory rules that a pattern or length check finds broken
LocallyBroken ==
    {k \in 1..Len(call.selected_rules.hard_rules) :
        /\ call.selected_rules.hard_rules[k].check_type
              \in {"regex_forbidden", "regex_required", "length_max", "length_min"}
        /\ call.selected_rules.hard_rules[k].id \in call.text.hits}

\* C22: a mandatory rule that a forbidden-pattern, required-pattern or length
\* check finds broken yields one violation, critical when the action of the
\* rule is block and high for every other action.
C22_BlockIsCriticalElseHigh ==
    Validating =>
        \A k \in LocallyBroken :
            LET rule == call.selected_rules.hard_rules[k]
                found == {n \in 1..Len(call.result.violations) :
                             call.result.violations[n].rule_id = rule.id}
            IN  /\ Cardinality(found) = 1
                /\ \A n \in found :
                      /\ call.result.violations[n].suggested_action
                            = rule.action_on_violation
                      /\ call.result.violations[n].severity =
                            IF rule.action_on_violation = "block"
                            THEN "critical" ELSE "high"

\* a validation that finds a rule with the action block and a rule with
\* another action broken by local checks
C22_Witness ==
    /\ Validating
    /\ \E k \in LocallyBroken :
          call.selected_rules.hard_rules[k].action_on_violation = "block"
    /\ \E k \in LocallyBroken :
          call.selected_rules.hard_rules[k].action_on_violation = "trim"
    /\ {"critical", "high"} \subseteq Severities

----------------------------------------------------------------------------
(* Properties of output repair (SpecFix, SpecRepair) *)

Fixing == call.op = "fix"

\* the violations handed to fix that have the given action
WithAction(action) ==
    SelectSeq(call.validation_result.violations,
              LAMBDA v : v.suggested_action = action)

\* C23: when a violation handed to fix has the action block the repair fails
\* as a whole: success is false, fixed_text is empty, remaining_violations
\* are the block violations, and no deterministic repair and no call of the
\* generation service is made.
C23_BlockFailsWholeRepair ==
    (Fixing /\ WithAction("block") # <<>>) =>
        /\ ~call.result.success
        /\ call.result.fixed_text = <<>>
        /\ call.result.remaining_violations = WithAction("block")
        /\ call.result.applied_fixes = <<>>
        /\ call.result.steps = <<>>

\* a failed repair of a text with a narration, asked to block, to remove and
\* to rewrite, while the service would have returned a text
C23_Witness ==
    /\ Fixing
    /\ call.text = <<Ch("("), Ch("a"), Ch(")"), Ch("a")>>
    /\ WithAction("block") # <<>>
    /\ WithAction("remove") # <<>>
    /\ WithAction("rewrite") # <<>>
    /\ ~call.answer.raises /\ call.answer.text # <<>>
    /\ ~call.result.success

\* the characters of a text that are neither white space nor quotes
Core(text) == SelectSeq(text, LAMBDA t : t.ch \notin WHITESPACE \cup QUOTES)

Infix(part, text) ==
    \E k \in 0..(Len(text) - Len(part)) : part = SubSeq(text, k + 1, k + Len(part))

\* the calls fix made, by operation
StepsOf(ops) == SelectSeq(call.result.steps, LAMBDA s : s.op \in ops)

\* C24: in a fix call with no block violation the REMOVE and TRIM repairs
\* are all applied, in the order of the violations, before any rewrite; the
\* REWRITE violations go into at most one call of the generation service,
\* made iff there is one; a text the service returns replaces the candidate
\* as a whole, and when the call fails or returns nothing, or is not made,
\* the result is the deterministically repaired text.
C24_RepairsThenOneRewrite ==
    (Fixing /\ WithAction("block") = <<>>
            /\ ~call.validation_result.is_valid) =>
        LET steps == call.result.steps
            called == StepsOf({"chat"})
            repaired == fix_quick(call.text, call.validation_result.violations)
        IN  /\ \A j, k \in 1..Len(steps) :
                  (steps[j].op = "chat" /\ steps[k].op \in {"remove", "trim"}) => k < j
            /\ Len(StepsOf({"remove"})) = Len(WithAction("remove"))
            /\ Len(StepsOf({"trim"})) = Len(WithAction("trim"))
            /\ Len(called) <= 1
            /\ Len(called) = 1 <=> WithAction("rewrite") # <<>>
            /\ Len(called) = 1 =>
                  called[1].rule_ids = RuleIds(WithAction("rewrite"))
            /\ call.result.success
            /\ IF Len(called) = 1 /\ ~call.answer.raises /\ call.answer.text # <<>>
               THEN /\ Infix(call.result.fixed_text, call.answer.text)
                    /\ Core(call.result.fixed_text) = Core(call.answer.text)
               ELSE call.result.fixed_text = repaired.fixed_text

\* a fix of a text with a narration whose violations list a rewrite before a
\* removal: the removal is made first, then one call for both rewrites, and
\* the returned text is the result
C24_Witness ==
    /\ Fixing
    /\ call.text = <<Ch("("), Ch("a"), Ch(")"), Ch("a")>>
    /\ Len(call.validation_result.violations) = 3
    /\ call.validation_result.violations[1].suggested_action = "rewrite"
    /\ call.validation_result.violations[2].suggested_action = "remove"
    /\ call.validation_result.violations[3].suggested_action = "rewrite"
    /\ call.answer = ChatReturns(<<Ch("b"), Ch("a")>>)
    /\ Len(call.result.steps) = 2
    /\ call.result.steps[1].op = "remove"
    /\ call.result.steps[2].op = "chat"
    /\ call.result.fixed_text = <<Ch("b"), Ch("a")>>

\* some part of the text matches the narration pattern
Matches(pattern, text) ==
    \E j, k \in 1..Len(text) :
        /\ j + 1 < k
        /\ text[j].ch = pattern.open
        /\ text[k].ch = pattern.close
        /\ \A n \in (j + 1)..(k - 1) : text[n].ch # pattern.close

NamesSpeaker(text) ==
    \E j \in 0..(Len(text) - Len(NAME) - 1) :
        /\ \A k \in 1..Len(NAME) : text[j + k].ch = NAME[k]
        /\ text[j + Len(NAME) + 1].ch \in COLONS

\* the text holds none of the narration patterns and is within the length limit
Clean(text) ==
    /\ \A k \in 1..Len(_narration_patterns) : ~Matches(_narration_patterns[k], text)
    /\ ~NamesSpeaker(text)
    /\ len(text) <= max_chars

\* C25: the deterministic repairs are the identity on clean text:
\* _apply_remove, and fix_quick with REMOVE / TRIM violations, return a text
\* with no narration pattern and within the length limit unchanged and
\* report that nothing was fixed.
C25_CleanTextUnchanged ==
    /\ (call.op = "_apply_remove" /\ Clean(call.text)) =>
          /\ call.result.text = call.text
          /\ ~call.result.was_fixed
    /\ (/\ call.op = "fix_quick"
        /\ Clean(call.text)
        /\ \A k \in 1..Len(call.violations) :
              call.violations[k].suggested_action \in {"remove", "trim"}) =>
          /\ call.result.fixed_text = call.text
          /\ call.result.applied_fixes = <<>>

----------------------------------------------------------------------------
(* Properties of the generation interface (SpecActor) *)

Blank(text) == \A k \in 1..Len(text) : text[k].ch \in WHITESPACE

\* C28: generate_reply raises whenever the output of the generation service
\* is empty or only white space; it never returns such a text as a reply.
C28_BlankReplyRaises ==
    call.op = "generate_reply" =>
        /\ (~call.response.raises /\ Blank(call.response.text)) => call.result.raised
        /\ ~call.result.raised => ~Blank(call.result.reply)

----------------------------------------------------------------------------
(* Properties of the turn pipeline (SpecTurn, SpecConc) *)

Replied(i) == w[i].pc = "done" /\ w[i].final_reply # NoText

\* C3: a turn returns no reply text when the validation of that text holds
\* a violation whose action is BLOCK.
C3_NoBlockedReply ==
    \A i \in Workers :
        Replied(i) =>
            ~(w[i].validation_result.present /\ "BLOCK" \in w[i].validation_result.actions)

C5_NoLostUpdate ==
    (/\ \A i \in Workers : w[i].pc = "done" /\ w[i].rounds = 1 /\ ~w[i].triggered
     /\ w["w1"].user_id = w["w2"].user_id)
    => /\ db[w["w1"].user_id].row
       /\ db[w["w1"].user_id].state.scenario.turn_count_in_phase = 2

\* C6: the state of a turn is persisted only after the generate / validate
\* loop has concluded; a turn that fails before leaves the stored state of
\* the user as the turn found it.
C6_CommitAfterLoop ==
    w["w1"].pc \in {"retrieve_memory", "select_rules", "generate", "validate",
                    "fix", "failed"}
    => db[w["w1"].user_id] = w["w1"].loaded

\* every one of the max_retries + 1 attempts of the turn of worker i gave a
\* candidate that failed its check, the last one with no violation that
\* asks for BLOCK, and the turn has ended
Exhausted(i) ==
    /\ w[i].pc = "done"
    /\ w[i].retry_count = max_retries
    /\ w[i].candidates = max_retries + 1
    /\ IF mode = "legacy" THEN ~w[i].critic.is_ok
       ELSE /\ w[i].validation_result.present
            /\ ~w[i].validation_result.is_valid
            /\ "BLOCK" \notin w[i].validation_result.actions

\* C26: when every one of the max_retries + 1 attempts fails validation and
\* no BLOCK violation occurred, the turn still returns a reply, and the reply
\* is the candidate of the last generation attempt.
C26_LastCandidateReturned ==
    \A i \in Workers :
        Exhausted(i) =>
            /\ w[i].gens = max_retries + 1
            /\ w[i].final_reply = GenText(max_retries + 1)

\* a graph turn whose three candidates all failed validation
C26_Witness ==
    \E i \in Workers :
        /\ mode = "graph"
        /\ Exhausted(i)
        /\ w[i].errors = {}
        /\ w[i].final_reply # NoText

\* the feedback on the last candidate of worker i
Feedback(i) ==
    IF mode = "legacy" THEN w[i].critic.feedback
    ELSE get_fix_instructions(w[i].validation_result)

Prefix(part, text) ==
    Len(part) <= Len(text) /\ part = SubSeq(text, 1, Len(part))

Suffix(part, text) ==
    /\ Len(part) <= Len(text)
    /\ part = SubSeq(text, Len(text) - Len(part) + 1, Len(text))

\* C27: a regeneration attempt is given the instruction of the attempt
\* before it, extended with the feedback on the candidate of that attempt;
\* so the instruction of attempt k holds the feedback of the attempts
\* before it in order, after the original instruction.
C27_FeedbackExtendsInstruction ==
    [][\A i \in Workers :
          (w[i].gens >= 1 /\ w'[i].gens = w[i].gens + 1) =>
              /\ Prefix(w[i].given, w'[i].given)
              /\ Len(w'[i].given) > Len(w[i].given)
              /\ Suffix(Feedback(i), w'[i].given)]_vars

\* C29: a failure of the generation service on one attempt is retried inside
\* the bounded loop; a turn fails for it only when the attempts are used up
\* and none gave a candidate, and a turn that ends otherwise returns a
\* candidate as its reply.
C29_GenerationFailureContained ==
    \A i \in Workers :
        /\ (w[i].pc = "failed" /\ w[i].gens >= 1) =>
              /\ w[i].candidates = 0
              /\ w[i].gens = max_retries + 1
        /\ w[i].pc = "done" => w[i].final_reply # NoText

\* C30: after a reset of a user the stored chat history of the user is
\* empty, and the turn of the user that follows the reset starts from the
\* default state: default phase and scene, zero affect, turn_count_in_phase
\* counted from 0 and no variable, so no consent flag, set.
C30_ResetRestoresDefaults ==
    \A i \in Workers :
        /\ w[i].pc = "reset_done" =>
              /\ chat_logs[w[i].user_id] = 0
              /\ ~db[w[i].user_id].row
        /\ (w[i].after_reset /\ w[i].pc # "load_state") =>
              /\ w[i].history = 0
              /\ ~w[i].loaded.row
              /\ w[i].user_state.scenario.turn_count_in_phase <= 1
              /\ w[i].pc = "observe" =>
                    /\ w[i].user_state.scenario.current_phase = DefaultPhase
                    /\ w[i].user_state.scenario.current_scene = DefaultScene
                    /\ w[i].user_state.scenario.turn_count_in_phase = 0
                    /\ w[i].user_state.scenario.variables = EmptyVars
                    /\ w[i].user_state.emotion =
                          [pleasure |-> 0, arousal |-> 0, dominance |-> 0]

\* a turn that has loaded its state after a reset that followed a turn
\* which had stored a state and an exchange
C30_Witness ==
    \E i \in Workers :
        /\ w[i].after_reset
        /\ w[i].pc = "observe"
        /\ w[i].rounds = 2
        /\ w[i].resets = 1
        /\ w[i].history = 0

----------------------------------------------------------------------------
(* Properties of the stored data of several users (SpecUsers) *)

\* C31: a step of the worker that serves one user (a chat turn, the state
\* write inside it, or a reset) leaves the stored state and the stored chat
\* history of every other user as they were, in every interleaving of the
\* two users' requests.
C31_UserIsolation ==
    [][\A i \in Workers :
          w'[i] # w[i] =>
              \A other \in UserIds \ {Serves[i]} :
                  /\ db'[other] = db[other]
                  /\ chat_logs'[other] = chat_logs[other]]_vars

\* one user has just been reset while the other, who has a stored state and
\* a stored history, has a turn in flight
C31_Witness ==
    /\ w["w1"].pc = "reset_done"
    /\ ~db["u1"].row
    /\ chat_logs["u1"] = 0
    /\ db["u2"].row
    /\ chat_logs["u2"] > 0
    /\ w["w2"].pc \in {"generate", "validate", "finish", "save"}
    /\ w["w1"].rounds > 0

\* the last call of the Critic service raised or returned no JSON
Unjudged(i) == w[i].answered.kind \in {"raises", "text"}

\* C32: when the call of the Critic service fails or its answer cannot be
\* parsed, check_reply reports the draft as acceptable with empty feedback,
\* and the legacy loop returns that candidate and makes no further
\* generation call in the turn.
C32_CriticFailureAccepts ==
    \A i \in Workers :
        (mode = "legacy" /\ Unjudged(i)) =>
            /\ w[i].critic = [is_ok |-> TRUE, feedback |-> <<>>]
            /\ w[i].pc \in {"finish", "done"}
            /\ w[i].final_reply = GenText(w[i].gens)
            /\ w[i].final_reply = w[i].draft_reply

\* the Critic rejected the first candidate and failed on the second
C32_Witness ==
    /\ mode = "legacy"
    /\ Unjudged("w1")
    /\ w["w1"].pc = "done"
    /\ w["w1"].gens = 2
    /\ w["w1"].final_reply = GenText(2)

----------------------------------------------------------------------------
(* Properties of the Observer's fallback and of the trigger check            *)
(* (SpecObserver)                                                            *)

\* what the keyword rules add to the affect, in hundredths
KeywordDelta(m) ==
    CASE m = "suki"  -> [pleasure |-> 100, arousal |-> 50, dominance |-> 0]
      [] m = "kirai" -> [pleasure |-> 0 - 150, arousal |-> 0, dominance |-> 0 - 50]
      [] m = "ikou"  -> [pleasure |-> 0, arousal |-> 100, dominance |-> 0]
      [] OTHER       -> [pleasure |-> 0, arousal |-> 0, dominance |-> 0]

Bounded(x) == IF x > 1000 THEN 1000 ELSE IF x < 0 - 1000 THEN 0 - 1000 ELSE x

\* x * 0.99, rounded toward zero
Faded(x) == IF x >= 0 THEN (x * 99) \div 100 ELSE 0 - (((0 - x) * 99) \div 100)

\* the trigger condition consists of turn counts only
OnlyTurns(cond) == cond # <<>> /\ \A k \in 1..Len(cond) : cond[k].op = "turn_ge"

\* C33: an update_state call made while the Observer service is unavailable
\* returns a state computed by the keyword rules: the affect is the old one
\* plus the keyword deltas, clamped, then decayed by 0.1; the trigger check
\* is handed a turn count one higher than before, and a phase gated by turn
\* counts alone advances when the count is reached; the count of the
\* returned state is one higher unless the phase advanced; the instruction
\* is empty unless a transition or a proposal occurred.
C33_FallbackByKeywordRules ==
    [][outages' # outages =>
        LET e == ustate.emotion
            d == KeywordDelta(obs'.user_message)
            scen == ustate.scenario
            gate == IF scen.current_phase \in DOMAIN Phases
                    THEN Phases[scen.current_phase]
                    ELSE PhaseDef("", <<>>, "", <<>>)
        IN  /\ obs'.source = "rules_fallback"
            /\ ustate'.emotion.pleasure = Faded(Bounded(e.pleasure + d.pleasure))
            /\ ustate'.emotion.arousal = Faded(Bounded(e.arousal + d.arousal))
            /\ ustate'.emotion.dominance = Bounded(e.dominance + d.dominance)
            /\ obs'.entry.turn_count_in_phase = scen.turn_count_in_phase + 1
            /\ ~obs'.triggered =>
                   /\ ustate'.scenario.turn_count_in_phase = scen.turn_count_in_phase + 1
                   /\ ustate'.scenario.current_phase = scen.current_phase
            /\ (gate.next_phase # "" /\ OnlyTurns(gate.trigger_condition)
                   /\ TurnPart(gate.trigger_condition, scen.turn_count_in_phase + 1)) =>
                   /\ obs'.triggered
                   /\ ustate'.scenario.current_phase = gate.next_phase
            /\ obs'.instruction_override = NoInstruction
                   <=> (~obs'.triggered /\ obs'.proposal = NoInstruction)]_vars

\* a fallback call on a message with a negative keyword that neither
\* advanced the phase nor proposed to
C33_Witness ==
    /\ obs.source = "rules_fallback"
    /\ obs.user_message = "kirai"
    /\ ustate.emotion.pleasure < 0
    /\ ustate.scenario.turn_count_in_phase > 0
    /\ obs.instruction_override = NoInstruction

----------------------------------------------------------------------------
(* Progress of a turn (SpecTurnLive) *)

\* C34: every turn that has come to its generation step reaches its final
\* step, the return of the legacy loop or the end of the save node, whatever
\* the outcomes of generation, validation and repair are.
C34_TurnReachesFinalStep ==
    \A n \in 1..MaxRounds :
        (w["w1"].pc = "generate" /\ w["w1"].rounds = n)
            ~> (w["w1"].pc = "done" /\ w["w1"].rounds = n)

\* the trigger check of the last call was not pending consent on entry
NotPending == ~Get(obs.entry.variables, "awaiting_consent", FALSE)

\* C35 as stated: a call in which an evaluation of the trigger condition
\* raised ends with no phase transition, no proposal and awaiting_consent
\* not set by the call.
C35_ErrorMeansNothingHappens ==
    obs.logged # {} =>
        /\ ~obs.triggered
        /\ ustate.scenario.current_phase = obs.entry.current_phase
        /\ obs.proposal = NoInstruction
        /\ NotPending => ~Awaiting(ustate.scenario)

\* C35, amended: each evaluation that raises counts as not satisfied on its
\* own.  When the evaluation of the trigger condition raises, the call makes
\* no phase transition; when the evaluation with consent assumed raises, the
\* call returns no proposal and does not set awaiting_consent; in both cases
\* update_state returns.
C35_ErrorFailsItsEvaluation ==
    /\ "Trigger check error" \in obs.logged =>
           /\ ~obs.triggered
           /\ ustate.scenario.current_phase = obs.entry.current_phase
    /\ "Proposal check error" \in obs.logged =>
           /\ ~obs.triggered
           /\ ustate.scenario.current_phase = obs.entry.current_phase
           /\ obs.proposal = NoInstruction
           /\ NotPending => ~Awaiting(ustate.scenario)

\* a call whose two evaluations both raised, on a variable no one has set
C35_Witness ==
    /\ obs.logged = {"Trigger check error", "Proposal check error"}
    /\ obs.entry.current_phase = "phase_2_backstage"
    /\ obs.user_message # ""

----------------------------------------------------------------------------
(* Properties of the turn pipeline, continued (SpecTurn) *)

\* the step of worker i validated a candidate and found it valid
Passes(i) ==
    \/ /\ mode = "graph"
       /\ w[i].pc = "validate"
       /\ w'[i].validation_result.present
       /\ w'[i].validation_result.is_valid
    \/ /\ mode = "legacy"
       /\ w[i].pc = "generate"
       /\ w'[i].candidates > w[i].candidates
       /\ w'[i].critic.is_ok

----------------------------------------------------------------------------
(* Properties of the phase of a turn (SpecObserver) *)

\* C37: an update_state call changes current_phase at most once, and only
\* from the phase the call started in to the next_phase of that phase's
\* definition, by a transition of the trigger check; whatever the Observer
\* service answers, the phase handed to the trigger check is the phase the
\* call started in.
C37_OneDeclaredTransitionPerTurn ==
    [][/\ obs' # obs => obs'.entry.current_phase = ustate.scenario.current_phase
       /\ ustate'.scenario.current_phase # ustate.scenario.current_phase =>
              /\ obs'.triggered
              /\ ustate.scenario.current_phase \in DOMAIN Phases
              /\ ustate'.scenario.current_phase =
                     Phases[ustate.scenario.current_phase].next_phase]_vars

\* a call that advanced to the third phase, whose own condition holds for
\* the variables the state carries
C37_Witness ==
    /\ story = "idol_story"
    /\ obs.triggered
    /\ obs.entry.current_phase = "phase_2_cafe"
    /\ ustate.scenario.current_phase = "phase_3_lesson"
    /\ Get(ustate.scenario.variables, "visited", FALSE)

----------------------------------------------------------------------------
(* Properties of the severity of violations (SpecSeverity) *)

\* C38: every violation validate returns whose suggested action is block has
\* severity critical, whatever kind of rule and of check produced it, so
\* that has_critical is true exactly when a violation asks for a block.
C38_BlockIsCritical ==
    Validating =>
        /\ \A k \in 1..Len(call.result.violations) :
               call.result.violations[k].suggested_action = "block"
                   => call.result.violations[k].severity = "critical"
        /\ has_critical(call.result) <=>
               \E k \in 1..Len(call.result.violations) :
                   call.result.violations[k].suggested_action = "block"

----------------------------------------------------------------------------
(* Properties of the graph pipeline (SpecTurn) *)

\* C39: a reply that reaches the save node of the graph was validated
\* against the selected rules, the mandatory ones among them, in that turn,
\* whatever errors the observe, memory and rule selection nodes met.
C39_SavedReplyWasValidated ==
    \A i \in Workers :
        (/\ mode = "graph"
         /\ w[i].pc \in {"save", "done"}
         /\ "Validator error" \notin w[i].errors) =>
            /\ w[i].selected_rules
            /\ w[i].validation_result.present

\* C40: in the graph the text the fix node produces is never validated or
\* saved: a generate step overwrites it first, so the draft that is
\* validated and the reply that is saved are the output of the last generate
\* call of the turn, which is empty only when a generate call failed.
C40_FixedTextNeverSaved ==
    \A i \in Workers :
        mode = "graph" =>
            /\ w[i].pc = "fix" => w[i].draft_reply.src # "fix"
            /\ w[i].pc \in {"validate", "save", "done"} =>
                   /\ w[i].draft_reply \in {GenText(w[i].gens), NoText}
                   /\ w[i].draft_reply = NoText => "Actor error" \in w[i].errors
            /\ w[i].final_reply.src # "fix"
            /\ w[i].pc = "done" => w[i].final_reply = w[i].draft_reply

\* a turn whose first candidate was repaired with success and that ended
\* with its second candidate
C40_Witness ==
    /\ mode = "graph"
    /\ w["w1"].pc = "done"
    /\ w["w1"].retry_count = 1
    /\ w["w1"].errors = {}
    /\ w["w1"].final_reply = GenText(2)

====
